---- MODULE Spec2Model ----
(***************************************************************************)
(* Moltbot artboard: the canvas engine (server/src/canvas.ts, kept here as *)
(* src/unnamed/part_004), its external-cache mirror (services/redis.ts)    *)
(* and the POST /pixel placement path (routes/api.ts; AuthService and      *)
(* RateLimitService in services/auth.ts), with the in-memory bot registry  *)
(* (config.usePostgres false).                                             *)
(*                                                                         *)
(* Node runs one callback at a time.  A callback runs until it awaits real *)
(* I/O (a cache command); an await of an async function that does no I/O   *)
(* resumes in a microtask, before any other request or timer callback.     *)
(* `cur` is the task holding the event loop (0: none), so a step of        *)
(* another task or a timer is possible only at a real suspension point.    *)
(*                                                                         *)
(* Cache commands travel over one connection and are executed in the order *)
(* they are issued: a command takes effect (or fails) in the step that     *)
(* issues it, and its caller resumes in a later step with the outcome.     *)
(***************************************************************************)
EXTENDS Integers, Sequences, FiniteSets, TLC

\* ---- program constants, scaled down --------------------------------------
\* types.ts: CANVAS_WIDTH = 1300, CANVAS_HEIGHT = 900, COOLDOWN_MS = 600000 ms
CANVAS_WIDTH == 2
CANVAS_HEIGHT == 2
COOLDOWN_MS == 2
\* canvas.ts: the history keeps the last 1000 placements
HISTORY_CAPACITY == 2
\* three of the 16 palette names of types.ts
COLOR_NAMES == {"white", "red", "blue"}

\* ---- bounds of the model -------------------------------------------------
MaxTasks == 2
MaxCallers == 1
MaxPlacements == 2
MaxNow == 3
MaxClock == 4
MaxArchivePlacements == 1
MaxLimit == 4
\* registrations that draw identifiers
MaxRegistrations == 2
\* the longest side of a grid handed to the codec of the cache
MaxGridSide == 2
\* chat messages accepted by one process
MaxChats == 4

\* ---- values --------------------------------------------------------------
NULL == "null"
\* the longest name POST /bots/register accepts
NAME_MAX == 32
\* api.ts: MAX_CHAT_MESSAGES = 100, CHAT_COOLDOWN_MS = 30 s, loadRecentChat(50);
\* a message has at most 200 characters
MAX_CHAT_MESSAGES == 3
CHAT_COOLDOWN_MS == 2
CHAT_SEED_LIMIT == 2
MESSAGE_MAX == 200
\* redis.ts: CHAT_MAX_MESSAGES = 100
CHAT_MAX_MESSAGES == 3
NoTime == -1
Tasks == 1..MaxTasks
\* the tasks that call the canvas directly
Callers == 1..MaxCallers
BotIds == {"bot_1", "bot_2"}
\* the name registered for a bot id
BotName(b) == IF b = "bot_1" THEN "alice" ELSE "bob"
\* coordinates a caller may pass: every cell and one step outside each edge
XInputs == -1..CANVAS_WIDTH
YInputs == -1..CANVAS_HEIGHT
\* the coordinates of the calls made: every cell, and one coordinate beyond
\* each edge (each fails one of the four comparisons of the bounds check)
CallCoords ==
    ((0..CANVAS_WIDTH-1) \X (0..CANVAS_HEIGHT-1))
        \cup {<<-1, 0>>, <<CANVAS_WIDTH, 0>>, <<0, -1>>, <<0, CANVAS_HEIGHT>>}
\* colors and bots a direct caller of the canvas passes
PlaceColors == {"white", "red"}
PlaceBots == {"bot_1"}

VARIABLES
    \* Canvas fields
    pixels, recentPlacements, initialized, cachedColors, stateDirty,
    colorCounts, redisSaveTimer, redisSavePending,
    \* runtime: pending setTimeout callbacks of the debounce, the clock,
    \* the task holding the event loop, the position of Canvas.init and of
    \* flushPendingRedisSave
    timeouts, now, cur, initPc, flushPc,
    \* configuration, and how the external cache behaves in this run
    useRedis, cacheMode,
    \* the external cache: canvas:colors, pixel:<x>:<y>, bot:stats,
    \* placements:recent, cooldown:<bot>
    redisCanvas, redisPixelInfo, redisBotStats, redisRecent, redisCooldown,
    \* in-memory services: RateLimitService.lastPlacement, Bot.pixelsPlaced
    lastPlacement, pixelsPlaced,
    \* tasks: position, arguments, outcome of the awaited command
    pc, req, resp,
    \* the value a call of setPixel settled with in the last step ("none" when
    \* the last step settled no call)
    ret,
    \* observers: the 'pixel' events emitted, in order
    emitted,
    \* history variables of the verification
    lastGet, escaped, placed, shadow, timerWrites, effects

canvasVars == <<pixels, recentPlacements, initialized, cachedColors, stateDirty,
                colorCounts, redisSaveTimer, redisSavePending>>
runtimeVars == <<timeouts, now, cur, initPc, flushPc>>
redisVars == <<redisCanvas, redisPixelInfo, redisBotStats, redisRecent, redisCooldown>>
serviceVars == <<lastPlacement, pixelsPlaced>>
taskVars == <<pc, req, resp>>
historyVars == <<lastGet, escaped, placed, shadow, timerWrites, effects>>

VARIABLES
    \* configuration of the durable stores
    usePostgres, useS3,
    \* ArchiveService fields, and the setTimeout armed by scheduleSnapshot
    \* (the time it is due, NoTime when none is armed)
    archives, nextSnapshotTime, snapshotTimer,
    \* the relational table `archives`, the objects and the index file of the
    \* object store, the files and the index file of the local directory
    dbArchives, s3Objects, s3Index, localFiles, localIndex,
    \* performSnapshot, loadArchives and one caller of getArchive: position
    \* and locals
    snapPc, snap, loadPc, loadResp, getPc, getReq,
    \* history variables of the verification: the firing of the scheduler
    \* that ended in the last step, the contents the canvas had when each
    \* archive was created, what a call of getArchive returned in the last step,
    \* whether loadArchives returned in the last step and after a failed read
    firing, created, answer, loaded

VARIABLES
    \* history variable of the verification: the last two placements made,
    \* each with the color the cell held and the counters as they were before it
    lastSets

VARIABLES
    \* Canvas fields of the ownership scan
    ownershipCache, ownershipCacheTime,
    \* history variables of the verification: the owners of the cells when the
    \* cache was last filled, and what getPixelOwnership did in the last step
    ownersAtScan, ownershipRead

ownershipVars == <<ownershipCache, ownershipCacheTime, ownersAtScan, ownershipRead>>

VARIABLES
    \* history variable of the verification: the reset of the canvas made in
    \* the last step, with the grid it cleared and the state archived before it
    resetNote

VARIABLES
    \* AuthService.bots (apiKey -> Bot), botsByName (lowered name -> Bot),
    \* botsById (id -> Bot)
    bots, botsByName, botsById,
    \* the values uuidv4() has returned
    drawn,
    \* history variable of the verification: the POST /bots/register answered
    \* in the last step
    regNote

registryVars == <<bots, botsByName, botsById, drawn, regNote>>

VARIABLES
    \* history variable of the verification: the number of placements that
    \* had been applied to the grid when it was last serialized for the cache
    mirrored,
    \* the GET /pixel/:x/:y request that awaits the cache, and the last response
    pixelReq, pixelAnswer

\* the variables of the pixel lookup
lookupVars == <<pixelReq, pixelAnswer>>
\* the history variables of the later parts
tailVars == <<mirrored, lookupVars>>

VARIABLES
    \* a grid handed to saveCanvasToRedis and what loadCanvasFromRedis returned
    codec,
    \* the last answer of RateLimitService.canPlace, with the time and the
    \* record it was given for
    limitRead

VARIABLES
    \* api.ts chatMessages and chatCooldowns (botId -> timestamp, 0 when absent)
    chatMessages, chatCooldowns,
    \* the sorted set chat:messages of the cache, in score order
    redisChat,
    \* the position of initChat with the answer it awaits, and the POST /chat
    \* that awaits saveChatMessage
    chatInit, chatReq,
    \* history variables of the verification: the messages initChat pushed,
    \* the messages this process accepted, and the last response of POST /chat
    chatSeeded, chatLog, chatAnswer

chatVars == <<chatMessages, chatCooldowns, redisChat, chatInit, chatReq, chatSeeded, chatLog,
              chatAnswer>>

\* the variables of the last parts
lastVars == <<codec, limitRead, chatVars>>

\* the variables of the parts of the program modelled after the archive service
laterVars == <<ownershipVars, resetNote, registryVars, tailVars, lastVars>>

archiveConfig == <<usePostgres, useS3>>
\* what no step of the archive service changes
archiveConstant == <<archiveConfig, lastSets, laterVars>>
archiveFields == <<archives, nextSnapshotTime, snapshotTimer>>
storeVars == <<dbArchives, s3Objects, s3Index, localFiles, localIndex>>
archiveTaskVars == <<snapPc, snap, loadPc, loadResp, getPc, getReq>>
archiveHistory == <<firing, created, answer, loaded>>
archiveVars == <<archiveConstant, archiveFields, storeVars, archiveTaskVars, archiveHistory>>

vars == <<canvasVars, runtimeVars, useRedis, cacheMode, redisVars, serviceVars, taskVars,
          ret, emitted, historyVars, archiveVars>>

\* ---- helpers -------------------------------------------------------------
Rows == 0..CANVAS_HEIGHT-1
Cols == 0..CANVAS_WIDTH-1
Min(a, b) == IF a < b THEN a ELSE b

\* canvas.ts createEmptyCanvas
createEmptyCanvas ==
    [y \in Rows |-> [x \in Cols |-> [color |-> "white", botId |-> NULL, placedAt |-> NoTime]]]

\* this.pixels.map(row => row.map(p => p.color)): an array of rows
Flatten(px) ==
    [r \in 1..CANVAS_HEIGHT |-> [c \in 1..CANVAS_WIDTH |-> px[r-1][c-1].color]]

\* JavaScript `m[k] || d` on a Record<string, number>
OrElse(m, k, d) == IF k \in DOMAIN m /\ m[k] # 0 THEN m[k] ELSE d
\* m[k] = v
Put(m, k, v) == [j \in DOMAIN m \cup {k} |-> IF j = k THEN v ELSE m[j]]
\* delete m[k]
Delete(m, k) == [j \in DOMAIN m \ {k} |-> m[j]]

InBounds(x, y) == ~(x < 0 \/ x >= CANVAS_WIDTH \/ y < 0 \/ y >= CANVAS_HEIGHT)

\* ---- services/redis.ts: the full-grid encoding ---------------------------
\* A string is the sequence of its tokens: a color name, "," or "|".  The
\* empty string is <<>>, and an absent key reads as the empty string (the
\* code treats both alike: `if (!compressed) return null`).
TokensOf(c) == IF c = "" THEN <<>> ELSE <<c>>

RECURSIVE JoinRow(_)
\* row.join(',')
JoinRow(row) ==
    IF Len(row) = 0 THEN <<>>
    ELSE IF Len(row) = 1 THEN TokensOf(row[1])
    ELSE TokensOf(row[1]) \o <<",">> \o JoinRow(Tail(row))

RECURSIVE JoinRows(_)
\* colors.map(row => row.join(',')).join('|')
JoinRows(colors) ==
    IF Len(colors) = 0 THEN <<>>
    ELSE IF Len(colors) = 1 THEN JoinRow(colors[1])
    ELSE JoinRow(colors[1]) \o <<"|">> \o JoinRows(Tail(colors))

RECURSIVE Split(_, _)
\* str.split(sep): the segments between the separators
Split(str, sep) ==
    IF \A i \in 1..Len(str) : str[i] # sep THEN <<str>>
    ELSE LET i == CHOOSE k \in 1..Len(str) :
                      str[k] = sep /\ \A j \in 1..(k-1) : str[j] # sep
         IN <<SubSeq(str, 1, i-1)>> \o Split(SubSeq(str, i+1, Len(str)), sep)

\* a segment between two separators, read back as a string
SegmentString(seg) == IF Len(seg) = 0 THEN "" ELSE seg[1]

\* saveCanvasToRedis: the value written under canvas:colors
Compress(colors) == JoinRows(colors)

\* a faulty decoder: rows are cut at ',' and cells at '|'
DecompressSwapped(compressed) ==
    IF Len(compressed) = 0 THEN <<>>
    ELSE LET rows == Split(compressed, ",")
         IN [r \in 1..Len(rows) |->
                LET cells == Split(rows[r], "|")
                IN [c \in 1..Len(cells) |-> SegmentString(cells[c])]]

\* loadCanvasFromRedis: <<>> stands for null
Decompress(compressed) ==
    IF Len(compressed) = 0 THEN <<>>
    ELSE LET rows == Split(compressed, "|")
         IN [r \in 1..Len(rows) |->
                LET cells == Split(rows[r], ",")
                IN [c \in 1..Len(cells) |-> SegmentString(cells[c])]]

\* ---- Canvas: synchronous operations --------------------------------------
\* Canvas.getPixel
getPixel(x, y) ==
    IF x < 0 \/ x >= CANVAS_WIDTH \/ y < 0 \/ y >= CANVAS_HEIGHT
    THEN [color |-> NULL, botId |-> NULL, placedAt |-> NoTime]
    ELSE pixels[y][x]

\* the value getPixel returns for an invalid coordinate
NoPixel == [color |-> NULL, botId |-> NULL, placedAt |-> NoTime]

\* a faulty placement: the counter of the overwritten color is not decremented
setPixelMemoryNoDecrement(x, y, color, botId) ==
    IF x < 0 \/ x >= CANVAS_WIDTH \/ y < 0 \/ y >= CANVAS_HEIGHT
    THEN [ok |-> FALSE, pixels |-> pixels, colorCounts |-> colorCounts,
          stateDirty |-> stateDirty, recentPlacements |-> recentPlacements]
    ELSE LET inc == Put(colorCounts, color, OrElse(colorCounts, color, 0) + 1)
             placement == [x |-> x, y |-> y, color |-> color, botId |-> botId,
                           timestamp |-> now]
             pushed == Append(recentPlacements, placement)
         IN [ok |-> TRUE,
             pixels |-> [pixels EXCEPT ![y][x] =
                            [color |-> color, botId |-> botId, placedAt |-> now]],
             colorCounts |-> inc,
             stateDirty |-> TRUE,
             recentPlacements |->
                 IF Len(pushed) > HISTORY_CAPACITY THEN Tail(pushed) ELSE pushed]

\* a faulty placement: the cell is written but the dirty flag is not raised
setPixelMemoryNoDirty(x, y, color, botId) ==
    IF x < 0 \/ x >= CANVAS_WIDTH \/ y < 0 \/ y >= CANVAS_HEIGHT
    THEN [ok |-> FALSE, pixels |-> pixels, colorCounts |-> colorCounts,
          stateDirty |-> stateDirty, recentPlacements |-> recentPlacements]
    ELSE LET oldColor == pixels[y][x].color
             dec == Put(colorCounts, oldColor, OrElse(colorCounts, oldColor, 1) - 1)
             del == IF dec[oldColor] <= 0 THEN Delete(dec, oldColor) ELSE dec
             inc == Put(del, color, OrElse(del, color, 0) + 1)
             placement == [x |-> x, y |-> y, color |-> color, botId |-> botId,
                           timestamp |-> now]
             pushed == Append(recentPlacements, placement)
         IN [ok |-> TRUE,
             pixels |-> [pixels EXCEPT ![y][x] =
                            [color |-> color, botId |-> botId, placedAt |-> now]],
             colorCounts |-> inc,
             stateDirty |-> stateDirty,
             recentPlacements |->
                 IF Len(pushed) > HISTORY_CAPACITY THEN Tail(pushed) ELSE pushed]

\* a faulty placement: the dirty flag is raised before the bounds check
setPixelMemoryDirtyFirst(x, y, color, botId) ==
    IF x < 0 \/ x >= CANVAS_WIDTH \/ y < 0 \/ y >= CANVAS_HEIGHT
    THEN [ok |-> FALSE, pixels |-> pixels, colorCounts |-> colorCounts,
          stateDirty |-> TRUE, recentPlacements |-> recentPlacements]
    ELSE LET oldColor == pixels[y][x].color
             dec == Put(colorCounts, oldColor, OrElse(colorCounts, oldColor, 1) - 1)
             del == IF dec[oldColor] <= 0 THEN Delete(dec, oldColor) ELSE dec
             inc == Put(del, color, OrElse(del, color, 0) + 1)
             placement == [x |-> x, y |-> y, color |-> color, botId |-> botId,
                           timestamp |-> now]
             pushed == Append(recentPlacements, placement)
         IN [ok |-> TRUE,
             pixels |-> [pixels EXCEPT ![y][x] =
                            [color |-> color, botId |-> botId, placedAt |-> now]],
             colorCounts |-> inc,
             stateDirty |-> TRUE,
             recentPlacements |->
                 IF Len(pushed) > HISTORY_CAPACITY THEN Tail(pushed) ELSE pushed]

\* Canvas.setPixel up to its first await: the bounds check, the counters, the
\* cell, the dirty flag and the history
setPixelMemory(x, y, color, botId) ==
    IF x < 0 \/ x >= CANVAS_WIDTH \/ y < 0 \/ y >= CANVAS_HEIGHT
    THEN [ok |-> FALSE, pixels |-> pixels, colorCounts |-> colorCounts,
          stateDirty |-> stateDirty, recentPlacements |-> recentPlacements]
    ELSE LET oldColor == pixels[y][x].color
             dec == Put(colorCounts, oldColor, OrElse(colorCounts, oldColor, 1) - 1)
             del == IF dec[oldColor] <= 0 THEN Delete(dec, oldColor) ELSE dec
             inc == Put(del, color, OrElse(del, color, 0) + 1)
             placement == [x |-> x, y |-> y, color |-> color, botId |-> botId,
                           timestamp |-> now]
             pushed == Append(recentPlacements, placement)
         IN [ok |-> TRUE,
             pixels |-> [pixels EXCEPT ![y][x] =
                            [color |-> color, botId |-> botId, placedAt |-> now]],
             colorCounts |-> inc,
             stateDirty |-> TRUE,
             recentPlacements |->
                 IF Len(pushed) > HISTORY_CAPACITY THEN Tail(pushed) ELSE pushed]

\* Canvas.setPixelSync
setPixelSync(x, y, color, botId) ==
    IF x < 0 \/ x >= CANVAS_WIDTH \/ y < 0 \/ y >= CANVAS_HEIGHT
    THEN [ok |-> FALSE, pixels |-> pixels, colorCounts |-> colorCounts,
          stateDirty |-> stateDirty, recentPlacements |-> recentPlacements]
    ELSE LET oldColor == pixels[y][x].color
             dec == Put(colorCounts, oldColor, OrElse(colorCounts, oldColor, 1) - 1)
             del == IF dec[oldColor] <= 0 THEN Delete(dec, oldColor) ELSE dec
             inc == Put(del, color, OrElse(del, color, 0) + 1)
             placement == [x |-> x, y |-> y, color |-> color, botId |-> botId,
                           timestamp |-> now]
             pushed == Append(recentPlacements, placement)
         IN [ok |-> TRUE,
             pixels |-> [pixels EXCEPT ![y][x] =
                            [color |-> color, botId |-> botId, placedAt |-> now]],
             colorCounts |-> inc,
             stateDirty |-> TRUE,
             recentPlacements |->
                 IF Len(pushed) > HISTORY_CAPACITY THEN Tail(pushed) ELSE pushed]

\* a faulty getState: the cache is rebuilt on every call
getStateAlwaysRebuild ==
    [colors |-> Flatten(pixels), cachedColors |-> Flatten(pixels),
     stateDirty |-> FALSE, rebuilt |-> TRUE]

\* Canvas.getState: the value returned, the cache it leaves, and whether it
\* rebuilt the cache.  cachedColors = <<>> stands for null.
getState ==
    IF stateDirty \/ cachedColors = <<>>
    THEN [colors |-> Flatten(pixels), cachedColors |-> Flatten(pixels),
          stateDirty |-> FALSE, rebuilt |-> TRUE]
    ELSE [colors |-> cachedColors, cachedColors |-> cachedColors,
          stateDirty |-> stateDirty, rebuilt |-> FALSE]

\* Array.prototype.slice(start) on a sequence: a negative start counts from
\* the end, a start of zero or more from the front
Slice(arr, start) ==
    LET len == Len(arr)
        k == IF start < 0
             THEN (IF len + start > 0 THEN len + start ELSE 0)
             ELSE (IF start < len THEN start ELSE len)
    IN SubSeq(arr, k + 1, len)

\* Canvas.getRecentPlacements
getRecentPlacements(limit) == Slice(recentPlacements, -limit)

\* a faulty getRegion: column 0 and row 0 are taken to be outside the grid
getRegionOffByOne(x, y, width, height) ==
    [dy \in 1..height |->
        [dx \in 1..width |->
            LET px == x + (dx - 1)
                py == y + (dy - 1)
            IN IF px > 0 /\ px < CANVAS_WIDTH /\ py > 0 /\ py < CANVAS_HEIGHT
               THEN pixels[py][px].color
               ELSE "white"]]

\* Canvas.getRegion
getRegion(x, y, width, height) ==
    [dy \in 1..height |->
        [dx \in 1..width |->
            LET px == x + (dx - 1)
                py == y + (dy - 1)
            IN IF px >= 0 /\ px < CANVAS_WIDTH /\ py >= 0 /\ py < CANVAS_HEIGHT
               THEN pixels[py][px].color
               ELSE "white"]]

\* a faulty scheduleRedisSave: a timer is set on every call, armed or not
scheduleRedisSaveRearm ==
    [redisSavePending |-> TRUE, redisSaveTimer |-> TRUE, timeouts |-> timeouts + 1]

\* Canvas.scheduleRedisSave, the synchronous part: the pending flag, the timer
\* handle, and the number of setTimeout callbacks waiting to run
scheduleRedisSave ==
    IF redisSaveTimer
    THEN [redisSavePending |-> TRUE, redisSaveTimer |-> redisSaveTimer,
          timeouts |-> timeouts]
    ELSE [redisSavePending |-> TRUE, redisSaveTimer |-> TRUE,
          timeouts |-> timeouts + 1]

\* a faulty copy: every row is taken to be as long as the first
CopyLoadedFirstRowWidth(px, colors) ==
    [y \in Rows |-> [x \in Cols |->
        IF y < Min(Len(colors), CANVAS_HEIGHT)
           /\ x < Min(Len(colors[1]), CANVAS_WIDTH)
        THEN [px[y][x] EXCEPT !.color = colors[y+1][x+1]]
        ELSE px[y][x]]]

\* ---- Canvas.init: seeding from the external cache ------------------------
\* lines 44-48: the cell-by-cell copy of the overlap of the loaded grid and
\* the configured grid
CopyLoaded(px, colors) ==
    [y \in Rows |-> [x \in Cols |->
        IF y < Min(Len(colors), CANVAS_HEIGHT)
           /\ x < Min(Len(colors[y+1]), CANVAS_WIDTH)
        THEN [px[y][x] EXCEPT !.color = colors[y+1][x+1]]
        ELSE px[y][x]]]

RECURSIVE CountCells(_, _, _)
\* lines 50-56: the counters rebuilt by a scan in row-major order; k is the
\* number of cells already counted
CountCells(px, k, counts) ==
    IF k = CANVAS_WIDTH * CANVAS_HEIGHT THEN counts
    ELSE LET c == px[k \div CANVAS_WIDTH][k % CANVAS_WIDTH].color
         IN CountCells(px, k + 1, Put(counts, c, OrElse(counts, c, 0) + 1))

\* the empty Record {}
EmptyRecord == [k \in {} |-> 0]

\* ---- what the external cache may hold when the process starts ------------
\* full grids written by an earlier process, whose configured size may have
\* been different: smaller, equal, larger, and one with rows of unequal length
SeedSmaller == <<<<"blue">>>>
SeedEqual == <<<<"red", "white">>, <<"white", "blue">>>>
SeedLarger == <<<<"white", "red", "blue">>, <<"red", "red", "white">>,
                <<"blue", "blue", "blue">>>>
SeedRagged == <<<<"red">>, <<"white", "blue", "red">>>>

\* a placements:recent feed left by an earlier process, in score order
SeedFeed ==
    << [x |-> 0, y |-> 0, color |-> "red", botId |-> "bot_1", timestamp |-> 1],
       [x |-> 1, y |-> 0, color |-> "blue", botId |-> "bot_2", timestamp |-> 1],
       [x |-> 0, y |-> 1, color |-> "red", botId |-> "bot_1", timestamp |-> 1] >>

\* the contents met at start: no grid (<<>>) or a grid, with or without a feed
SeedPairs ==
    { <<<<>>, <<>>>>, <<<<>>, SeedFeed>>, <<SeedSmaller, <<>>>>,
      <<SeedEqual, SeedFeed>>, <<SeedLarger, <<>>>>, <<SeedRagged, SeedFeed>> }

NoInfo == [botId |-> NULL, botName |-> NULL, timestamp |-> NoTime]
NoReq == [kind |-> "none", auth |-> "none", numeric |-> TRUE, x |-> 0, y |-> 0,
          color |-> "white", botId |-> NULL, botName |-> NULL, timestamp |-> NoTime,
          remainingMs |-> 0]

\* ---- services/archive.ts (src/unnamed/part_000): values and stores --------
\* archive.ts: CYCLE_MS = 24 h; setUTCHours(24, 0, 0, 0) moves to the start of
\* the next UTC day, so a day lasts as long as a cycle
CYCLE_MS == 2
DAY_MS == 2

\* new Date(now).setUTCHours(24, 0, 0, 0): the first midnight after t
NextMidnight(t) == ((t \div DAY_MS) + 1) * DAY_MS

\* `archive_${timestamp}`
ArchiveId(timestamp) == <<"archive_", timestamp>>
\* `archives/${id}.json`
S3Key(id) == <<"archives/", id, ".json">>
\* key.replace('archives/', '').replace('.json', '')
IdOfKey(key) == key[2]

\* a decimal string read back as a number (parseInt, JSON.parse of a number)
ParseInt(str) == CHOOSE n \in 0..(MaxClock + CANVAS_WIDTH + CANVAS_HEIGHT) : ToString(n) = str

\* JSON text is the sequence of its tokens; <<>> is no text
RECURSIVE JsonRows(_)
\* the rows of a string[][], each between brackets
JsonRows(colors) ==
    IF Len(colors) = 0 THEN <<>>
    ELSE <<"[">> \o colors[1] \o <<"]">> \o JsonRows(Tail(colors))

\* JSON.stringify({colors, width, height})
JsonStringify(state) ==
    <<"colors", "[">> \o JsonRows(state.colors)
        \o <<"]", "width", ToString(state.width), "height", ToString(state.height)>>

\* JSON.parse of such a text
JsonParse(text) ==
    LET w == CHOOSE i \in 1..Len(text) : text[i] = "width"
        h == CHOOSE i \in 1..Len(text) : text[i] = "height"
        rows == Split(SubSeq(text, 3, w - 2), "]")
    IN [colors |-> [r \in 1..(Len(rows) - 1) |-> Tail(rows[r])],
        width |-> ParseInt(text[w + 1]),
        height |-> ParseInt(text[h + 1])]

\* what getArchive and the loaders return for null
NoData == [colors |-> <<>>, width |-> 0, height |-> 0]
\* the state of the canvas an archive holds: getState()'s return value
StateOf(colors) == [colors |-> colors, width |-> CANVAS_WIDTH, height |-> CANVAS_HEIGHT]

\* the empty table, bucket and directory
NoObjects == [k \in {} |-> <<>>]

\* database.ts saveArchiveToDb, line 196: INSERT ... ON CONFLICT (id) DO NOTHING
InsertArchive(rows, id, timestamp, text) ==
    IF \E i \in 1..Len(rows) : rows[i].id = id THEN rows
    ELSE Append(rows, [id |-> id, timestamp |-> timestamp, canvas_data |-> text])

\* a faulty select: the first row of the table, whatever its id
SelectArchiveFirstRow(rows, id) ==
    IF Len(rows) > 0 THEN JsonParse(rows[1].canvas_data) ELSE NoData

\* database.ts loadArchiveFromDb, lines 215-219: the JSONB column of the row
\* with this id, parsed by the driver
SelectArchive(rows, id) ==
    IF \E i \in 1..Len(rows) : rows[i].id = id
    THEN JsonParse((rows[CHOOSE i \in 1..Len(rows) : rows[i].id = id]).canvas_data)
    ELSE NoData

RECURSIVE OrderByTimestampDesc(_)
\* ORDER BY timestamp DESC
OrderByTimestampDesc(rows) ==
    IF Len(rows) = 0 THEN <<>>
    ELSE LET i == CHOOSE k \in 1..Len(rows) :
                      \A j \in 1..Len(rows) : rows[j].timestamp <= rows[k].timestamp
         IN <<rows[i]>> \o OrderByTimestampDesc(
                SubSeq(rows, 1, i - 1) \o SubSeq(rows, i + 1, Len(rows)))

\* database.ts listArchivesFromDb, lines 231-237 (the BIGINT column arrives as
\* a decimal string)
SelectArchives(rows) ==
    LET sorted == OrderByTimestampDesc(rows)
    IN [i \in 1..Len(sorted) |->
           [id |-> sorted[i].id, timestamp |-> ParseInt(ToString(sorted[i].timestamp))]]

\* storage.ts loadArchiveFromS3, lines 78-88
GetObject(objects, id) ==
    IF S3Key(id) \in DOMAIN objects THEN JsonParse(objects[S3Key(id)].body)
    ELSE NoData

RECURSIVE KeysInOrder(_)
\* the keys of a bucket in the order ListObjectsV2 returns them
KeysInOrder(keys) ==
    IF keys = {} THEN <<>>
    ELSE LET k == CHOOSE a \in keys : \A b \in keys : a[2][2] <= b[2][2]
         IN <<k>> \o KeysInOrder(keys \ {k})

\* storage.ts listArchivesFromS3, lines 119-140: the fallback listing built
\* from the objects, newest modification first
ListObjects(objects) ==
    LET keys == KeysInOrder(DOMAIN objects)
        metas == [i \in 1..Len(keys) |->
                     [id |-> IdOfKey(keys[i]),
                      timestamp |-> objects[keys[i]].lastModified,
                      key |-> keys[i]]]
    IN OrderByTimestampDesc(metas)

\* archive.ts loadArchives, lines 390-393: s3Archives.map(a => ({id, timestamp}))
DropKeys(metas) ==
    [i \in 1..Len(metas) |-> [id |-> metas[i].id, timestamp |-> metas[i].timestamp]]

\* archive.ts scheduleSnapshot, lines 415-425: the time the next callback is
\* due (a snapshot due at once is taken at the clock's present value)
scheduleSnapshot(next, clock) ==
    IF next - clock <= 0 THEN clock ELSE next

\* no snapshot in progress
NoSnap == [id |-> ArchiveId(0), timestamp |-> NoTime, state |-> NoData, index |-> <<>>,
           before |-> <<>>, recorded |-> 0, writes |-> <<>>]
\* no firing of the scheduler ended in the last step
NoFiring == [ended |-> FALSE, id |-> ArchiveId(0), timestamp |-> NoTime, state |-> NoData,
             due |-> NoTime, before |-> <<>>, after |-> <<>>, recorded |-> 0,
             writes |-> <<>>, thrown |-> FALSE, next |-> NoTime, timer |-> NoTime,
             endedAt |-> NoTime]
\* loadArchives did not return in the last step
NoLoaded == [done |-> FALSE, failed |-> FALSE]
\* no listing received
NoListing == [have |-> FALSE, list |-> <<>>, failed |-> FALSE]
\* no call of getArchive in progress, and none that returned in the last step
NoGet == [id |-> ArchiveId(0), data |-> NoData, note |-> [listed |-> FALSE, asked |-> <<>>, failed |-> {}]]
NoAnswer == [returned |-> FALSE, id |-> ArchiveId(0), data |-> NoData,
             note |-> [listed |-> FALSE, asked |-> <<>>, failed |-> {}]]

\* the archives written by an earlier process at times 0 and 1: entry and
\* contents
SeedArchive(t) == [id |-> ArchiveId(t), timestamp |-> t]
SeedState(t) ==
    StateOf(IF t = 0 THEN SeedEqual ELSE <<<<"blue", "red">>, <<"white", "white">>>>)

\* Canvas.OWNERSHIP_CACHE_TTL_MS = 15000 ms, scaled down
OWNERSHIP_CACHE_TTL_MS == 2

\* ownershipCache = null, and no call of getPixelOwnership in the last step
NoOwnership == [have |-> FALSE, counts |-> EmptyRecord]
NoOwnershipRead == [returned |-> FALSE, value |-> EmptyRecord, scanned |-> FALSE,
                    had |-> FALSE, age |-> 0]

\* the Canvas fields of the ownership scan as declared (lines 223-224)
OwnershipStart ==
    /\ ownershipCache = NoOwnership
    /\ ownershipCacheTime = 0
    /\ ownersAtScan = [y \in Rows |-> [x \in Cols |-> NULL]]
    /\ ownershipRead = NoOwnershipRead

\* canvas.reset() was not called in the last step
NoReset == [cleared |-> FALSE, before |-> <<>>, archived |-> NoData, id |-> ArchiveId(0)]

\* a Map with no entry
NoBots == [k \in {} |-> NULL]

\* no registration was answered in the last step
NoRegistration == [called |-> FALSE, name |-> <<>>, status |-> 0, error |-> "",
                   before |-> <<NoBots, NoBots, NoBots>>]

\* auth.ts lines 17-19: the three maps of a new AuthService
RegistryStart ==
    /\ bots = NoBots
    /\ botsByName = NoBots
    /\ botsById = NoBots
    /\ drawn = {}
    /\ regNote = NoRegistration

\* the start of the parts of the program modelled after the archive service
\* no GET /pixel is waiting
NoLookup == [pc |-> "idle", x |-> 0, y |-> 0,
             pixel |-> [color |-> NULL, botId |-> NULL, placedAt |-> NoTime],
             info |-> NoInfo, failed |-> FALSE]
\* no GET /pixel has been answered
NoPixelAnswer == [status |-> 0, x |-> 0, y |-> 0, color |-> NULL, botId |-> NULL,
                  botName |-> NULL, placedAt |-> NoTime]

\* no grid has been handed to saveCanvasToRedis
NoCodec == [grid |-> <<>>, saved |-> FALSE, returned |-> FALSE, value |-> <<>>]

\* the start of the last parts
\* canPlace has not been called
NoLimitRead == [called |-> FALSE, botId |-> NULL, at |-> NoTime, last |-> NoTime,
                allowed |-> FALSE, remainingMs |-> 0]

\* no POST /chat awaits the cache
NoChatReq == [pc |-> "idle", msg |-> <<>>, saved |-> FALSE]
\* no POST /chat has been answered
NoChatAnswer == [status |-> 0, botId |-> NULL, at |-> NoTime, before |-> <<>>,
                 message |-> <<>>]

\* api.ts lines 13-14 with an empty sorted set in the cache
ChatStart ==
    /\ chatMessages = <<>>
    /\ chatCooldowns = [b \in BotIds |-> 0]
    /\ redisChat = <<>>
    /\ chatInit = [pc |-> "start", resp |-> <<>>]
    /\ chatReq = NoChatReq
    /\ chatSeeded = <<>>
    /\ chatLog = <<>>
    /\ chatAnswer = NoChatAnswer

LastStart == codec = NoCodec /\ limitRead = NoLimitRead /\ ChatStart

\* the start of the parts of the program modelled after the archive service
LaterStart ==
    /\ OwnershipStart
    /\ resetNote = NoReset
    /\ RegistryStart
    /\ mirrored = 0
    /\ pixelReq = NoLookup
    /\ pixelAnswer = NoPixelAnswer
    /\ LastStart

\* the state after `new ArchiveService()` (lines 350-364), for one
\* configuration and one content of the durable stores
ArchiveStart(pg, s3, rows, objects, index, files, localIdx) ==
    /\ usePostgres = pg
    /\ useS3 = s3
    /\ archives = <<>>
    /\ nextSnapshotTime = NextMidnight(1)
    /\ snapshotTimer = scheduleSnapshot(NextMidnight(1), 1)
    /\ dbArchives = rows
    /\ s3Objects = objects
    /\ s3Index = index
    /\ localFiles = files
    /\ localIndex = localIdx
    /\ snapPc = "idle"
    /\ snap = NoSnap
    /\ loadPc = "start"
    /\ loadResp = NoListing
    /\ getPc = "idle"
    /\ getReq = NoGet
    /\ firing = NoFiring
    /\ created = [k \in {} |-> NoData]
    /\ answer = NoAnswer
    /\ loaded = NoLoaded
    /\ lastSets = <<>>
    /\ LaterStart

\* no durable store is configured and none holds anything
ArchiveIdle == ArchiveStart(FALSE, FALSE, <<>>, NoObjects, <<>>, NoObjects, <<>>)

\* the state after the module-level constructors have run (new Canvas(), the
\* services), for one configuration and one content of the external cache
StartState(redis, mode, canvasSeed, feedSeed) ==
    /\ pixels = createEmptyCanvas
    /\ recentPlacements = <<>>
    /\ initialized = FALSE
    /\ cachedColors = <<>>
    /\ stateDirty = TRUE
    /\ colorCounts = [c \in {"white"} |-> CANVAS_WIDTH * CANVAS_HEIGHT]
    /\ redisSaveTimer = FALSE
    /\ redisSavePending = FALSE
    /\ timeouts = 0
    /\ now = 1
    /\ cur = 0
    /\ initPc = "start"
    /\ flushPc = "idle"
    /\ useRedis = redis
    /\ cacheMode = mode
    /\ redisCanvas = canvasSeed
    /\ redisRecent = feedSeed
    /\ redisPixelInfo = [y \in Rows |-> [x \in Cols |-> NoInfo]]
    /\ redisBotStats = [b \in BotIds |-> 0]
    /\ redisCooldown = [b \in BotIds |-> NoTime]
    /\ lastPlacement = [b \in BotIds |-> NoTime]
    /\ pixelsPlaced = [b \in BotIds |-> 0]
    /\ pc = [t \in Tasks |-> "idle"]
    /\ req = [t \in Tasks |-> NoReq]
    /\ resp = [t \in Tasks |-> "none"]
    /\ ret = "none"
    /\ emitted = <<>>
    /\ lastGet = <<>>
    /\ escaped = {}
    /\ placed = 0
    /\ shadow = [y \in Rows |-> [x \in Cols |-> "white"]]
    /\ timerWrites = 0
    /\ effects = [t \in Tasks |-> <<>>]

\* the start of a run: without a cache; with a cache that answers, for each
\* content it may hold; with a cache that holds a grid and a feed but fails
Init ==
    \/ StartState(FALSE, "up", <<>>, <<>>) /\ ArchiveIdle
    \/ \E s \in SeedPairs : StartState(TRUE, "up", Compress(s[1]), s[2]) /\ ArchiveIdle
    \/ StartState(TRUE, "down", Compress(SeedEqual), SeedFeed) /\ ArchiveIdle

\* the process has not exited (gracefulShutdown ends in process.exit)
Alive == flushPc # "flushed"
\* the event loop is free for a new callback
LoopFree == cur = 0 /\ Alive
\* the outcomes of a cache command: the cache answers every command, fails
\* every command, or ("flaky") answers some and fails others
Outcomes(mode) ==
    IF mode = "up" THEN {"ok"} ELSE IF mode = "down" THEN {"fail"} ELSE {"ok", "fail"}

\* Canvas.init, lines 37-42: up to the await of loadCanvasFromRedis
CanvasInitStart ==
    /\ LoopFree
    /\ initPc = "start"
    /\ ~initialized
    /\ IF useRedis
       THEN /\ \E o \in Outcomes(cacheMode) :
                 /\ initPc' = (IF o = "ok" THEN "canvas_ok" ELSE "canvas_fail")
            /\ UNCHANGED initialized
       ELSE /\ initialized' = TRUE
            /\ initPc' = "done"
    /\ ret' = "none"
    /\ UNCHANGED <<pixels, recentPlacements, cachedColors, stateDirty, colorCounts,
                   redisSaveTimer, redisSavePending, timeouts, now, cur, flushPc,
                   useRedis, cacheMode, redisVars, serviceVars, taskVars, emitted,
                   lastGet, escaped, placed, shadow, timerWrites, effects>>

\* a faulty init: one try around both seed steps, so that a failure of the
\* grid load leaves init without the feed being asked for
CanvasInitLoadedOneTry ==
    /\ LoopFree
    /\ initPc \in {"canvas_ok", "canvas_fail"}
    /\ LET colors == IF initPc = "canvas_ok" THEN Decompress(redisCanvas) ELSE <<>>
           copied == CopyLoaded(pixels, colors)
       IN IF colors # <<>>
          THEN /\ pixels' = copied
               /\ colorCounts' = CountCells(copied, 0, EmptyRecord)
               /\ stateDirty' = TRUE
               /\ shadow' = [y \in Rows |-> [x \in Cols |-> copied[y][x].color]]
               /\ lastGet' = <<>>
          ELSE UNCHANGED <<pixels, colorCounts, stateDirty, shadow, lastGet>>
    /\ IF initPc = "canvas_fail"
       THEN initPc' = "done"
       ELSE \E o \in Outcomes(cacheMode) :
                initPc' = (IF o = "ok" THEN "feed_ok" ELSE "feed_fail")
    /\ ret' = "none"
    /\ UNCHANGED <<recentPlacements, initialized, cachedColors,
                   redisSaveTimer, redisSavePending, timeouts, now, cur, flushPc,
                   useRedis, cacheMode, redisVars, serviceVars, taskVars, emitted,
                   escaped, placed, timerWrites, effects>>

\* Canvas.init, lines 42-68: the loaded grid is copied and counted (or the
\* failure is logged), up to the await of loadRecentPlacements
CanvasInitLoaded ==
    /\ LoopFree
    /\ initPc \in {"canvas_ok", "canvas_fail"}
    /\ LET colors == IF initPc = "canvas_ok" THEN Decompress(redisCanvas) ELSE <<>>
           copied == CopyLoaded(pixels, colors)
       IN IF colors # <<>>
          THEN /\ pixels' = copied
               /\ colorCounts' = CountCells(copied, 0, EmptyRecord)
               /\ stateDirty' = TRUE
               /\ shadow' = [y \in Rows |-> [x \in Cols |-> copied[y][x].color]]
               /\ lastGet' = <<>>
          ELSE UNCHANGED <<pixels, colorCounts, stateDirty, shadow, lastGet>>
    /\ \E o \in Outcomes(cacheMode) :
         /\ initPc' = (IF o = "ok" THEN "feed_ok" ELSE "feed_fail")
    /\ ret' = "none"
    /\ UNCHANGED <<recentPlacements, initialized, cachedColors,
                   redisSaveTimer, redisSavePending, timeouts, now, cur, flushPc,
                   useRedis, cacheMode, redisVars, serviceVars, taskVars, emitted,
                   escaped, placed, timerWrites, effects>>

\* Canvas.init, lines 68-78: the feed replaces the history when it is not
\* empty; the canvas is marked initialized
CanvasInitFeed ==
    /\ LoopFree
    /\ initPc \in {"feed_ok", "feed_fail"}
    /\ recentPlacements' = (IF initPc = "feed_ok" /\ Len(redisRecent) > 0
                            THEN redisRecent ELSE recentPlacements)
    /\ initialized' = TRUE
    /\ initPc' = "done"
    /\ ret' = "none"
    /\ UNCHANGED <<pixels, cachedColors, stateDirty, colorCounts,
                   redisSaveTimer, redisSavePending, timeouts, now, cur, flushPc,
                   useRedis, cacheMode, redisVars, serviceVars, taskVars, emitted,
                   historyVars>>

\* index.ts line 151: the server listens, and requests are served, only after
\* init() has resolved
Listening == initPc = "done" /\ Alive

\* ---- services/redis.ts: the per-pixel commands ---------------------------
\* addRecentPlacement trims entries older than 2 hours (scaled)
RECENT_WINDOW_MS == 2

\* setPixelInfo: HSET pixel:<x>:<y>
setPixelInfo(x, y, botId, botName) ==
    [redisPixelInfo EXCEPT ![y][x] =
        [botId |-> botId, botName |-> botName, timestamp |-> now]]

\* incrementBotPixelCount: HINCRBY bot:stats <botId> 1
incrementBotPixelCount(botId) ==
    [redisBotStats EXCEPT ![botId] = @ + 1]

\* the order of two members with equal score in a sorted set: the order of
\* their JSON texts {"x":..,"y":..,"color":..,"botId":..,"timestamp":..}
ColorRank(c) == IF c = "blue" THEN 0 ELSE IF c = "red" THEN 1 ELSE 2
BotRank(b) == IF b = "bot_1" THEN 0 ELSE 1
MemberBefore(a, b) ==
    \/ a.timestamp < b.timestamp
    \/ /\ a.timestamp = b.timestamp
       /\ \/ a.x < b.x
          \/ a.x = b.x /\ a.y < b.y
          \/ a.x = b.x /\ a.y = b.y /\ ColorRank(a.color) < ColorRank(b.color)
          \/ a.x = b.x /\ a.y = b.y /\ a.color = b.color
             /\ BotRank(a.botId) < BotRank(b.botId)

\* the plain placement record of a request
PlacementOf(r) ==
    [x |-> r.x, y |-> r.y, color |-> r.color, botId |-> r.botId,
     timestamp |-> r.timestamp]

\* addRecentPlacement, first command: ZADD placements:recent <timestamp> <json>
ZAdd(feed, p) ==
    IF \E i \in 1..Len(feed) : feed[i] = p THEN feed
    ELSE LET k == Cardinality({i \in 1..Len(feed) : MemberBefore(feed[i], p)})
         IN SubSeq(feed, 1, k) \o <<p>> \o SubSeq(feed, k + 1, Len(feed))

\* addRecentPlacement, second command: ZREMRANGEBYSCORE placements:recent 0 max
ZRemRangeByScore(feed, max) ==
    SelectSeq(feed, LAMBDA p : ~(0 <= p.timestamp /\ p.timestamp <= max))

\* ---- Canvas.setPixel: the asynchronous part ------------------------------
\* a faulty setPixel: setPixelInfo is awaited before the try block
SetPixelTryAfterInfo == {"sp_incr", "sp_zadd", "sp_trim"}

\* the awaits of setPixel that its try block covers (lines 129-135)
SetPixelTry == {"sp_info", "sp_incr", "sp_zadd", "sp_trim"}

\* setPixel, called with the arguments r, settles and its caller resumes in a
\* microtask: a direct caller is finished, the POST /pixel handler goes on at
\* `next`
Resume(t, r, value, next) ==
    /\ ret' = value
    /\ resp' = [resp EXCEPT ![t] = "none"]
    /\ IF r.kind = "api"
       THEN /\ pc' = [pc EXCEPT ![t] = next]
            /\ req' = [req EXCEPT ![t] = r]
            /\ cur' = t
       ELSE /\ pc' = [pc EXCEPT ![t] = "idle"]
            /\ req' = [req EXCEPT ![t] = NoReq]
            /\ cur' = 0

\* the awaited command at position p of setPixel failed: the catch block
\* logs it and setPixel returns true, or the error leaves setPixel
SetPixelFailed(t, p) ==
    IF p \in SetPixelTry
    THEN /\ Resume(t, req[t], "true", "rl_record")
         /\ UNCHANGED escaped
    ELSE /\ Resume(t, req[t], "threw", "crashed")
         /\ escaped' = escaped \cup {"setPixel"}

\* Canvas.setPixel, lines 100-130: the in-memory placement, the debounce and
\* the first cache command; r holds the arguments and the kind of caller
SetPixelEnter(t, r) ==
    LET m == setPixelMemory(r.x, r.y, r.color, r.botId)
        stamped == [r EXCEPT !.timestamp = now]
    IN /\ pixels' = m.pixels
       /\ colorCounts' = m.colorCounts
       /\ stateDirty' = m.stateDirty
       /\ recentPlacements' = m.recentPlacements
       /\ IF ~m.ok
          THEN /\ Resume(t, r, "false", "rl_record")
               /\ UNCHANGED <<redisSaveTimer, redisSavePending, timeouts,
                              redisPixelInfo, placed, shadow,
                              lastGet, escaped, effects>>
          ELSE /\ placed' = placed + 1
               /\ shadow' = [shadow EXCEPT ![r.y][r.x] = r.color]
               /\ lastGet' = <<>>
               /\ effects' = (IF r.kind = "api"
                              THEN [effects EXCEPT ![t] = Append(@, "grid")]
                              ELSE effects)
               /\ IF useRedis
                  THEN /\ redisSavePending' = scheduleRedisSave.redisSavePending
                       /\ redisSaveTimer' = scheduleRedisSave.redisSaveTimer
                       /\ timeouts' = scheduleRedisSave.timeouts
                       /\ \E o \in Outcomes(cacheMode) :
                            /\ redisPixelInfo' =
                                 (IF o = "ok"
                                  THEN setPixelInfo(r.x, r.y, r.botId, r.botName)
                                  ELSE redisPixelInfo)
                            /\ resp' = [resp EXCEPT ![t] = o]
                       /\ pc' = [pc EXCEPT ![t] = "sp_info"]
                       /\ req' = [req EXCEPT ![t] = stamped]
                       /\ cur' = 0
                       /\ ret' = "none"
                       /\ UNCHANGED escaped
                  ELSE /\ Resume(t, stamped, "true", "rl_record")
                       /\ UNCHANGED <<redisSaveTimer, redisSavePending, timeouts,
                                      redisPixelInfo, escaped>>

\* a caller other than the HTTP route calls canvas.setPixel
DirectSetPixel(t, x, y, color, botId) ==
    /\ LoopFree
    /\ Listening
    /\ pc[t] = "idle"
    /\ InBounds(x, y) => placed < MaxPlacements
    /\ SetPixelEnter(t, [kind |-> "direct", auth |-> "none", numeric |-> TRUE,
                         x |-> x, y |-> y, color |-> color,
                         botId |-> botId, botName |-> BotName(botId),
                         timestamp |-> NoTime, remainingMs |-> 0])
    /\ UNCHANGED <<initialized, cachedColors, now, initPc, flushPc, useRedis, cacheMode,
                   redisCanvas, redisBotStats, redisRecent, redisCooldown,
                   serviceVars, emitted, timerWrites>>

\* setPixel after `await setPixelInfo` (lines 130-131)
SetPixelInfoDone(t) ==
    /\ LoopFree
    /\ pc[t] = "sp_info"
    /\ IF resp[t] = "fail"
       THEN /\ SetPixelFailed(t, "sp_info")
            /\ UNCHANGED redisBotStats
       ELSE /\ \E o \in Outcomes(cacheMode) :
                 /\ redisBotStats' = (IF o = "ok"
                                      THEN incrementBotPixelCount(req[t].botId)
                                      ELSE redisBotStats)
                 /\ resp' = [resp EXCEPT ![t] = o]
            /\ pc' = [pc EXCEPT ![t] = "sp_incr"]
            /\ ret' = "none"
            /\ UNCHANGED <<req, cur, escaped>>
    /\ UNCHANGED <<canvasVars, timeouts, now, initPc, flushPc, useRedis, cacheMode,
                   redisCanvas, redisPixelInfo, redisRecent, redisCooldown,
                   serviceVars, emitted, lastGet, placed, shadow, timerWrites,
                   effects>>

\* setPixel after `await incrementBotPixelCount` (lines 131-132), into
\* addRecentPlacement up to its ZADD
SetPixelIncrDone(t) ==
    /\ LoopFree
    /\ pc[t] = "sp_incr"
    /\ IF resp[t] = "fail"
       THEN /\ SetPixelFailed(t, "sp_incr")
            /\ UNCHANGED redisRecent
       ELSE /\ \E o \in Outcomes(cacheMode) :
                 /\ redisRecent' = (IF o = "ok"
                                    THEN ZAdd(redisRecent, PlacementOf(req[t]))
                                    ELSE redisRecent)
                 /\ resp' = [resp EXCEPT ![t] = o]
            /\ pc' = [pc EXCEPT ![t] = "sp_zadd"]
            /\ ret' = "none"
            /\ UNCHANGED <<req, cur, escaped>>
    /\ UNCHANGED <<canvasVars, timeouts, now, initPc, flushPc, useRedis, cacheMode,
                   redisCanvas, redisPixelInfo, redisBotStats, redisCooldown,
                   serviceVars, emitted, lastGet, placed, shadow, timerWrites,
                   effects>>

\* addRecentPlacement after its ZADD: the trim of entries older than 2 hours
SetPixelZaddDone(t) ==
    /\ LoopFree
    /\ pc[t] = "sp_zadd"
    /\ IF resp[t] = "fail"
       THEN /\ SetPixelFailed(t, "sp_zadd")
            /\ UNCHANGED redisRecent
       ELSE /\ \E o \in Outcomes(cacheMode) :
                 /\ redisRecent' = (IF o = "ok"
                                    THEN ZRemRangeByScore(redisRecent,
                                                          now - RECENT_WINDOW_MS)
                                    ELSE redisRecent)
                 /\ resp' = [resp EXCEPT ![t] = o]
            /\ pc' = [pc EXCEPT ![t] = "sp_trim"]
            /\ ret' = "none"
            /\ UNCHANGED <<req, cur, escaped>>
    /\ UNCHANGED <<canvasVars, timeouts, now, initPc, flushPc, useRedis, cacheMode,
                   redisCanvas, redisPixelInfo, redisBotStats, redisCooldown,
                   serviceVars, emitted, lastGet, placed, shadow, timerWrites,
                   effects>>

\* setPixel after `await addRecentPlacement` (lines 132-138): return true
SetPixelTrimDone(t) ==
    /\ LoopFree
    /\ pc[t] = "sp_trim"
    /\ IF resp[t] = "fail"
       THEN SetPixelFailed(t, "sp_trim")
       ELSE /\ Resume(t, req[t], "true", "rl_record")
            /\ UNCHANGED escaped
    /\ UNCHANGED <<canvasVars, timeouts, now, initPc, flushPc, useRedis, cacheMode,
                   redisVars, serviceVars, emitted, lastGet,
                   placed, shadow, timerWrites, effects>>

\* a caller calls canvas.setPixelSync; a rejected call changes nothing
DirectSetPixelSync(x, y, color, botId) ==
    /\ LoopFree
    /\ Listening
    /\ InBounds(x, y) => placed < MaxPlacements
    /\ LET m == setPixelSync(x, y, color, botId)
       IN /\ pixels' = m.pixels
          /\ colorCounts' = m.colorCounts
          /\ stateDirty' = m.stateDirty
          /\ recentPlacements' = m.recentPlacements
          /\ IF m.ok
             THEN /\ placed' = placed + 1
                  /\ shadow' = [shadow EXCEPT ![y][x] = color]
                  /\ lastGet' = <<>>
             ELSE UNCHANGED <<placed, shadow, lastGet>>
    /\ ret' = "none"
    /\ UNCHANGED <<initialized, cachedColors, redisSaveTimer, redisSavePending,
                   runtimeVars, useRedis, cacheMode, redisVars, serviceVars, taskVars,
                   emitted, escaped, timerWrites, effects>>

\* a reader calls canvas.getState: GET /api/canvas, a socket connection
GetState ==
    /\ LoopFree
    /\ Listening
    /\ cachedColors' = getState.cachedColors
    /\ stateDirty' = getState.stateDirty
    /\ lastGet' = getState.colors
    /\ ret' = "none"
    /\ UNCHANGED <<pixels, recentPlacements, initialized, colorCounts,
                   redisSaveTimer, redisSavePending, runtimeVars, useRedis, cacheMode,
                   redisVars, serviceVars, taskVars, emitted,
                   escaped, placed, shadow, timerWrites, effects>>

\* ---- the debounced full-grid save and the flush on shutdown --------------
\* the full-grid writes whose await is inside a try block: the timer callback
\* (lines 256-261) and flushPendingRedisSave (lines 272-278)
SaveTry == {"timer", "flush"}

\* the callback armed by scheduleRedisSave (lines 253-262) runs: it clears the
\* handle and the flag, serializes the grid and writes it
TimerFire ==
    /\ LoopFree
    /\ timeouts > 0
    /\ timeouts' = timeouts - 1
    /\ redisSaveTimer' = FALSE
    /\ redisSavePending' = FALSE
    /\ \E o \in Outcomes(cacheMode) :
         /\ redisCanvas' = (IF o = "ok" THEN Compress(Flatten(pixels))
                                        ELSE redisCanvas)
         /\ escaped' = (IF o = "fail" /\ "timer" \notin SaveTry
                        THEN escaped \cup {"timer"} ELSE escaped)
    /\ timerWrites' = timerWrites + 1
    /\ ret' = "none"
    /\ UNCHANGED <<pixels, recentPlacements, initialized, cachedColors,
                   stateDirty, colorCounts, now, cur, initPc, flushPc, useRedis, cacheMode,
                   redisPixelInfo, redisBotStats, redisRecent, redisCooldown,
                   serviceVars, taskVars, emitted, lastGet, placed, shadow,
                   effects>>

\* gracefulShutdown calls flushPendingRedisSave (lines 266-274): the timer is
\* cancelled and, when a save is pending, the grid is written
FlushStart ==
    /\ LoopFree
    /\ flushPc = "idle"
    /\ timeouts' = (IF redisSaveTimer THEN timeouts - 1 ELSE timeouts)
    /\ redisSaveTimer' = FALSE
    /\ IF redisSavePending /\ useRedis
       THEN \E o \in Outcomes(cacheMode) :
              /\ redisCanvas' = (IF o = "ok" THEN Compress(Flatten(pixels))
                                             ELSE redisCanvas)
              /\ flushPc' = (IF o = "ok" THEN "save_ok" ELSE "save_fail")
       ELSE /\ flushPc' = "flushed"
            /\ UNCHANGED redisCanvas
    /\ ret' = "none"
    /\ UNCHANGED <<pixels, recentPlacements, initialized, cachedColors,
                   stateDirty, colorCounts, redisSavePending, now, cur, initPc,
                   useRedis, cacheMode, redisPixelInfo, redisBotStats, redisRecent,
                   redisCooldown, serviceVars, taskVars, emitted, lastGet,
                   escaped, placed, shadow, timerWrites, effects>>

\* flushPendingRedisSave after its await (lines 274-279); the process exits
\* as soon as it has returned (index.ts gracefulShutdown)
FlushSaved ==
    /\ LoopFree
    /\ flushPc \in {"save_ok", "save_fail"}
    /\ redisSavePending' = (IF flushPc = "save_ok" THEN FALSE ELSE redisSavePending)
    /\ escaped' = (IF flushPc = "save_fail" /\ "flush" \notin SaveTry
                   THEN escaped \cup {"flush"} ELSE escaped)
    /\ flushPc' = "flushed"
    /\ ret' = "none"
    /\ UNCHANGED <<pixels, recentPlacements, initialized, cachedColors,
                   stateDirty, colorCounts, redisSaveTimer, timeouts, now, cur,
                   initPc, useRedis, cacheMode, redisVars, serviceVars, taskVars, emitted,
                   lastGet, placed, shadow, timerWrites, effects>>

\* time passes between two callbacks
Tick ==
    /\ LoopFree
    /\ now < MaxNow
    /\ now' = now + 1
    /\ ret' = "none"
    /\ UNCHANGED <<canvasVars, timeouts, cur, initPc, flushPc, useRedis, cacheMode,
                   redisVars, serviceVars, taskVars, emitted, historyVars>>

\* ---- the canvas with direct callers --------------------------------------
Next ==
    \/ CanvasInitStart /\ UNCHANGED archiveVars
    \/ CanvasInitLoaded /\ UNCHANGED archiveVars
    \/ CanvasInitFeed /\ UNCHANGED archiveVars
    \/ \E t \in Callers, at \in CallCoords, c \in PlaceColors, b \in PlaceBots :
         DirectSetPixel(t, at[1], at[2], c, b) /\ UNCHANGED archiveVars
    \/ \E t \in Callers : SetPixelInfoDone(t) /\ UNCHANGED archiveVars
    \/ \E t \in Callers : SetPixelIncrDone(t) /\ UNCHANGED archiveVars
    \/ \E t \in Callers : SetPixelZaddDone(t) /\ UNCHANGED archiveVars
    \/ \E t \in Callers : SetPixelTrimDone(t) /\ UNCHANGED archiveVars
    \/ \E at \in CallCoords, c \in PlaceColors, b \in PlaceBots :
         DirectSetPixelSync(at[1], at[2], c, b) /\ UNCHANGED archiveVars
    \/ GetState /\ UNCHANGED archiveVars

Spec == Init /\ [][Next]_vars

\* ---- the canvas engine: counters, serialized state, coordinates, regions --
\* the cells of the grid whose color is c
CellsOf(c) == {cell \in Cols \X Rows : pixels[cell[2]][cell[1]].color = c}
\* the colors present in the grid
GridColors == {pixels[cell[2]][cell[1]].color : cell \in Cols \X Rows}
\* colorCounts[c], an absent key meaning 0
CountOf(c) == IF c \in DOMAIN colorCounts THEN colorCounts[c] ELSE 0

RECURSIVE SumCounts(_, _)
\* the sum of the counters of the colors in keys
SumCounts(m, keys) ==
    IF keys = {} THEN 0
    ELSE LET k == CHOOSE j \in keys : TRUE
         IN m[k] + SumCounts(m, keys \ {k})

\* C1: in every reachable state (constructed, seeded by init, after any
\* accepted or rejected setPixel/setPixelSync) colorCounts[c] is the number of
\* cells whose color is c, an absent key meaning 0, and the counters sum to
\* width * height
C1_ColorCountsExact ==
    /\ \A c \in DOMAIN colorCounts \cup GridColors \cup COLOR_NAMES :
         CountOf(c) = Cardinality(CellsOf(c))
    /\ SumCounts(colorCounts, DOMAIN colorCounts) = CANVAS_WIDTH * CANVAS_HEIGHT

\* C1 case: the grid was seeded with a blue cell by init, and a placement has
\* overwritten it, so that the counter of blue was decremented and deleted
C1_Witness ==
    /\ useRedis
    /\ redisCanvas = Compress(SeedEqual)
    /\ initPc = "done"
    /\ placed >= 1
    /\ "blue" \notin DOMAIN colorCounts
    /\ pixels[1][1].color = "red"

\* C2: getState returns the grid as the last mutation left it: the value a
\* call would return now, and the value the last call returned when no
\* placement followed it, equal the flattened grid; whenever stateDirty is
\* false and cachedColors is not null, cachedColors equals the flattened grid
C2_ReadAfterWrite ==
    /\ getState.colors = Flatten(pixels)
    /\ lastGet # <<>> => lastGet = Flatten(pixels)
    /\ (~stateDirty /\ cachedColors # <<>>) => cachedColors = Flatten(pixels)

\* C2 case: getState was called after two placements and once before the
\* second (the cache is clean and holds a non-white cell)
C2_Witness ==
    /\ placed = 2
    /\ lastGet # <<>>
    /\ ~stateDirty
    /\ cachedColors # <<>>
    /\ cachedColors # Flatten(createEmptyCanvas)

\* C3: after a getState with no set since, a second getState returns the same
\* grid and does not rebuild the cache; a rebuild happens only when the dirty
\* flag is set or nothing is cached, and it clears the dirty flag
C3_GetStateIdempotent ==
    /\ lastGet # <<>> =>
         /\ getState.colors = lastGet
         /\ ~getState.rebuilt
         /\ getState.cachedColors = cachedColors
         /\ getState.stateDirty = stateDirty
    /\ getState.rebuilt =>
         /\ stateDirty \/ cachedColors = <<>>
         /\ ~getState.stateDirty

\* C3 case: getState has been called after a placement and nothing was set
\* since; the next call is the second of the two
C3_Witness ==
    /\ lastGet # <<>>
    /\ placed >= 1
    /\ ~getState.rebuilt

\* the coordinates outside the grid that a caller passes
Outside == {c \in XInputs \X YInputs : ~InBounds(c[1], c[2])}

\* the result of a rejected placement: false, and the fields as they are
Rejected(m) ==
    /\ m.ok = FALSE
    /\ m.pixels = pixels
    /\ m.colorCounts = colorCounts
    /\ m.recentPlacements = recentPlacements
    /\ m.stateDirty = stateDirty

\* a step in which setPixel is called with arguments outside the grid returns
\* false and leaves the canvas, the timer and the external cache as they were
RejectedStep ==
    \A t \in Callers, c \in CallCoords \cap Outside, color \in PlaceColors,
       b \in PlaceBots :
        DirectSetPixel(t, c[1], c[2], color, b) =>
            /\ ret' = "false"
            /\ UNCHANGED <<canvasVars, timeouts, redisVars, placed, shadow>>
            /\ pc'[t] = "idle"

\* C4: for every coordinate outside the grid getPixel reports null and
\* setPixel and setPixelSync report false; the rejected set leaves the grid,
\* colorCounts, the history, the dirty flag and the debounce timer unchanged
\* and writes nothing to the external cache
C4_InvalidCoordinate ==
    /\ [](\A c \in Outside, color \in PlaceColors, b \in BotIds :
            /\ getPixel(c[1], c[2]) = NoPixel
            /\ Rejected(setPixelMemory(c[1], c[2], color, b))
            /\ Rejected(setPixelSync(c[1], c[2], color, b)))
    /\ [][RejectedStep]_vars

\* C4 case: setPixel has just returned false for a call outside the grid,
\* while the cache was clean and the debounce timer armed
C4_Witness ==
    /\ ret = "false"
    /\ ~stateDirty
    /\ cachedColors # <<>>
    /\ redisSaveTimer
    /\ placed >= 1

\* the sizes of the regions requested
RegionSizes == 0..(CANVAS_WIDTH + 1)

\* C5: getRegion(x, y, w, h) is h rows of w color names; local (dx, dy) holds
\* the color of cell (x+dx, y+dy) when it is inside the grid and 'white'
\* otherwise; region(-1,-1,3,3) has cell (0,0) at local (1,1)
C5_RegionShape ==
    /\ \A x \in XInputs, y \in YInputs, w \in RegionSizes, h \in RegionSizes :
         LET region == getRegion(x, y, w, h)
         IN /\ DOMAIN region = 1..h
            /\ \A dy \in 0..(h-1) :
                 /\ DOMAIN region[dy+1] = 1..w
                 /\ \A dx \in 0..(w-1) :
                      region[dy+1][dx+1] =
                          (IF InBounds(x + dx, y + dy)
                           THEN pixels[y+dy][x+dx].color ELSE "white")
    /\ getRegion(-1, -1, 3, 3)[2][2] = pixels[0][0].color
    /\ \A k \in 1..3 : getRegion(-1, -1, 3, 3)[1][k] = "white"
                       /\ getRegion(-1, -1, 3, 3)[k][1] = "white"

\* C5 case: cell (0,0) has been painted red by a placement, and the region
\* around the top-left corner shows it at local (1,1)
C5_Witness ==
    /\ placed >= 1
    /\ pixels[0][0].color = "red"
    /\ pixels[0][0].botId = "bot_1"
    /\ getRegion(-1, -1, 3, 3)[2][2] = "red"

\* ---- the canvas with its external cache: debounce, flush, failures --------
\* the cache is enabled and holds a grid and a feed; it answers every
\* command or fails every command
InitCache ==
    \E mode \in {"up", "down"} :
        StartState(TRUE, mode, Compress(SeedEqual), SeedFeed) /\ ArchiveIdle

NextCache ==
    \/ CanvasInitStart /\ UNCHANGED archiveVars
    \/ CanvasInitLoaded /\ UNCHANGED archiveVars
    \/ CanvasInitFeed /\ UNCHANGED archiveVars
    \/ \E t \in Callers, at \in CallCoords, c \in PlaceColors, b \in PlaceBots :
         DirectSetPixel(t, at[1], at[2], c, b) /\ UNCHANGED archiveVars
    \/ \E t \in Callers : SetPixelInfoDone(t) /\ UNCHANGED archiveVars
    \/ \E t \in Callers : SetPixelIncrDone(t) /\ UNCHANGED archiveVars
    \/ \E t \in Callers : SetPixelZaddDone(t) /\ UNCHANGED archiveVars
    \/ \E t \in Callers : SetPixelTrimDone(t) /\ UNCHANGED archiveVars
    \/ GetState /\ UNCHANGED archiveVars
    \/ TimerFire /\ UNCHANGED archiveVars
    \/ FlushStart /\ UNCHANGED archiveVars
    \/ FlushSaved /\ UNCHANGED archiveVars

SpecCache == InitCache /\ [][NextCache]_vars

\* the colors of the accepted placements (and of the seed), as a grid
ShadowGrid ==
    [r \in 1..CANVAS_HEIGHT |-> [c \in 1..CANVAS_WIDTH |-> shadow[r-1][c-1]]]

\* the cache is enabled and every command fails
CacheDown == useRedis /\ cacheMode = "down"

\* a call of setPixel that reached its cache commands returns
SetPixelReturns(t) == pc[t] \in SetPixelTry /\ pc'[t] = "idle"

\* C6: with the cache enabled and every cache command failing, every
\* in-bounds setPixel returns true, no error leaves setPixel, the timer
\* callback or flushPendingRedisSave, and getState shows every placement made
C6_CacheFailureTolerated ==
    /\ [](CacheDown =>
            /\ escaped = {}
            /\ ret # "threw"
            /\ getState.colors = ShadowGrid
            /\ Flatten(pixels) = ShadowGrid)
    /\ [][\A t \in Tasks : (CacheDown /\ SetPixelReturns(t)) => ret' = "true"]_vars

\* C6 case: every command has failed; two placements were made, the timer
\* callback ran and failed, the flush failed, and setPixel has just returned
\* true
C6_Witness ==
    /\ CacheDown
    /\ placed >= 2
    /\ timerWrites >= 1
    /\ flushPc = "save_fail"
    /\ ret = "true"
    /\ redisCanvas = Compress(SeedEqual)
    /\ \E y \in Rows, x \in Cols : pixels[y][x].color = "red"

\* a step that applies a placement
PlacementStep == placed' = placed + 1
\* a step in which the timer callback runs
TimerStep == timerWrites' = timerWrites + 1

\* C7: at most one debounce timer is armed at any time, and the handle is set
\* exactly when a callback is waiting; a placement made while the timer is
\* armed neither restarts it nor adds another; a pending save has its timer;
\* the callback writes the grid once and leaves the handle and the pending
\* flag cleared, so the placements between arming and firing cost one write
C7_DebounceCoalescing ==
    /\ [](/\ timeouts \in {0, 1}
          /\ redisSaveTimer <=> timeouts = 1
          /\ (redisSavePending /\ flushPc = "idle") => redisSaveTimer
          /\ timerWrites <= placed
          /\ (timerWrites = placed /\ flushPc = "idle") => ~redisSaveTimer)
    /\ [][/\ (PlacementStep /\ redisSaveTimer) =>
                /\ timeouts' = timeouts
                /\ redisSaveTimer'
                /\ redisSavePending'
                /\ timerWrites' = timerWrites
                /\ redisCanvas' = redisCanvas
          /\ (PlacementStep /\ ~redisSaveTimer) =>
                /\ timeouts' = timeouts + 1
                /\ redisSaveTimer'
                /\ redisSavePending'
          /\ TimerStep =>
                /\ timeouts' = timeouts - 1
                /\ ~redisSaveTimer'
                /\ ~redisSavePending'
                /\ (cacheMode = "up" => redisCanvas' = Compress(Flatten(pixels)))
          /\ (redisCanvas' # redisCanvas /\ flushPc' = flushPc) => TimerStep
         ]_vars

\* C7 case: two placements were made while one timer was armed, the timer
\* has fired once and written the grid holding both, and nothing is pending
C7_Witness ==
    /\ cacheMode = "up"
    /\ placed = 2
    /\ timerWrites = 1
    /\ timeouts = 0
    /\ ~redisSaveTimer
    /\ ~redisSavePending
    /\ flushPc = "idle"
    /\ redisCanvas = Compress(Flatten(pixels))
    /\ redisCanvas # Compress(SeedEqual)

\* ---- POST /api/pixel (routes/api.ts), with the in-memory bot registry -----
\* the API keys of the registered bots (AuthService.bots: apiKey -> Bot)
KeyOwner(apiKey) ==
    IF apiKey = "key_1" THEN "bot_1" ELSE IF apiKey = "key_2" THEN "bot_2" ELSE NULL

\* AuthService.validateApiKey without a database: this.bots.get(apiKey) || null
validateApiKey(apiKey) == KeyOwner(apiKey)

\* a faulty route: the color is not validated
RejectionNoColorCheck(r) ==
    IF r.auth = "none" THEN "r401"
    ELSE IF validateApiKey(r.auth) = NULL THEN "r401"
    ELSE IF ~r.numeric THEN "r400"
    ELSE IF r.x < 0 \/ r.x >= CANVAS_WIDTH \/ r.y < 0 \/ r.y >= CANVAS_HEIGHT THEN "r400"
    ELSE "ok"

\* a faulty route: a coordinate equal to the width or the height is accepted
RejectionLooseBounds(r) ==
    IF r.auth = "none" THEN "r401"
    ELSE IF validateApiKey(r.auth) = NULL THEN "r401"
    ELSE IF ~r.numeric THEN "r400"
    ELSE IF r.x < 0 \/ r.x > CANVAS_WIDTH \/ r.y < 0 \/ r.y > CANVAS_HEIGHT THEN "r400"
    ELSE IF r.color = "" \/ r.color \notin COLOR_NAMES THEN "r400"
    ELSE "ok"

\* the checks of the handler before the rate limit (lines 122-151): the
\* status it answers with, or "ok"
Rejection(r) ==
    IF r.auth = "none" THEN "r401"
    ELSE IF validateApiKey(r.auth) = NULL THEN "r401"
    ELSE IF ~r.numeric THEN "r400"
    ELSE IF r.x < 0 \/ r.x >= CANVAS_WIDTH \/ r.y < 0 \/ r.y >= CANVAS_HEIGHT THEN "r400"
    ELSE IF r.color = "" \/ r.color \notin COLOR_NAMES THEN "r400"
    ELSE "ok"

\* RateLimitService.canPlace without a cache (auth.ts lines 203-215)
canPlaceMemory(botId) ==
    LET last == lastPlacement[botId]
    IN IF last = NoTime THEN TRUE
       ELSE now - last >= COOLDOWN_MS

\* redis.ts getCooldown: PTTL cooldown:<bot>, -2 when the key is absent or has
\* expired; `ttl > 0 ? ttl : null`, null being 0 here
getCooldown(botId) ==
    LET ttl == IF redisCooldown[botId] = NoTime \/ redisCooldown[botId] <= now
               THEN -2 ELSE redisCooldown[botId] - now
    IN IF ttl > 0 THEN ttl ELSE 0

\* RateLimitService.canPlace with a cache (auth.ts lines 195-199), given the
\* value getRedisCooldown resolved with
canPlaceRedis(remainingMs) == remainingMs = 0 \/ remainingMs <= 0

\* the requests sent: well-formed ones of both bots, and one for each reason
\* of rejection
ApiCells == {<<0, 0>>, <<CANVAS_WIDTH - 1, CANVAS_HEIGHT - 1>>}
ApiColors == {"red", "blue"}
RequestOf(auth, numeric, x, y, color) ==
    [kind |-> "api", auth |-> auth, numeric |-> numeric, x |-> x, y |-> y,
     color |-> color, botId |-> KeyOwner(auth),
     botName |-> IF KeyOwner(auth) = NULL THEN NULL ELSE BotName(KeyOwner(auth)),
     timestamp |-> NoTime, remainingMs |-> 0]
Requests ==
    {RequestOf(k, TRUE, c[1], c[2], col) :
        k \in {"key_1", "key_2"}, c \in ApiCells, col \in ApiColors}
    \cup {RequestOf(k, TRUE, 0, 0, "red") : k \in {"none", "bad"}}
    \cup {RequestOf("key_1", FALSE, 0, 0, "red")}
    \cup {RequestOf("key_1", TRUE, c[1], c[2], "red") : c \in CallCoords \cap Outside}
    \cup {RequestOf("key_1", TRUE, 0, 0, col) : col \in {"mauve", ""}}

\* the handler answers the request of task t with a 4xx status
Reject(t, r, status) ==
    /\ pc' = [pc EXCEPT ![t] = status]
    /\ req' = [req EXCEPT ![t] = r]
    /\ resp' = [resp EXCEPT ![t] = "none"]
    /\ cur' = 0
    /\ ret' = "none"

\* the handler fails with an error nothing catches: the request gets no answer
Crash(t) ==
    /\ pc' = [pc EXCEPT ![t] = "crashed"]
    /\ resp' = [resp EXCEPT ![t] = "none"]
    /\ cur' = 0
    /\ ret' = "none"
    /\ escaped' = escaped \cup {"handler"}

\* the fields setPixel may write
placementVars == <<pixels, colorCounts, stateDirty, recentPlacements, redisSaveTimer,
                   redisSavePending, timeouts, redisPixelInfo, placed, shadow,
                   lastGet, effects>>

\* lines 121-166: a request arrives; the checks, the rate limit and, without a
\* cache, the placement
ApiStart(t, r) ==
    /\ LoopFree
    /\ Listening
    /\ pc[t] = "idle"
    /\ IF Rejection(r) # "ok"
       THEN /\ Reject(t, r, Rejection(r))
            /\ UNCHANGED <<placementVars, escaped>>
       ELSE IF useRedis
       THEN /\ \E o \in Outcomes(cacheMode) :
                 /\ resp' = [resp EXCEPT ![t] = o]
                 /\ req' = [req EXCEPT ![t] =
                              [r EXCEPT !.remainingMs =
                                  IF o = "ok" THEN getCooldown(r.botId) ELSE 0]]
            /\ pc' = [pc EXCEPT ![t] = "rl_check"]
            /\ cur' = 0
            /\ ret' = "none"
            /\ UNCHANGED <<placementVars, escaped>>
       ELSE IF ~canPlaceMemory(r.botId)
       THEN /\ Reject(t, r, "r429")
            /\ UNCHANGED <<placementVars, escaped>>
       ELSE SetPixelEnter(t, r)
    /\ UNCHANGED <<initialized, cachedColors, now, initPc, flushPc, useRedis, cacheMode,
                   redisCanvas, redisBotStats, redisRecent, redisCooldown,
                   serviceVars, emitted, timerWrites>>

\* lines 154-166: canPlace has its answer from the cache; the request is
\* refused, or setPixel is called
ApiCooldownChecked(t) ==
    /\ LoopFree
    /\ pc[t] = "rl_check"
    /\ IF resp[t] = "fail"
       THEN /\ Crash(t)
            /\ UNCHANGED <<placementVars, req>>
       ELSE IF ~canPlaceRedis(req[t].remainingMs)
       THEN /\ Reject(t, req[t], "r429")
            /\ UNCHANGED <<placementVars, escaped>>
       ELSE SetPixelEnter(t, req[t])
    /\ UNCHANGED <<initialized, cachedColors, now, initPc, flushPc, useRedis, cacheMode,
                   redisCanvas, redisBotStats, redisRecent, redisCooldown,
                   serviceVars, emitted, timerWrites>>

\* lines 168-189: incrementPixelsPlaced without a database, the broadcast and
\* the answer
Announce(t) ==
    /\ pixelsPlaced' = [pixelsPlaced EXCEPT ![req[t].botId] = @ + 1]
    /\ emitted' = Append(emitted, [x |-> req[t].x, y |-> req[t].y,
                                   color |-> req[t].color, botId |-> req[t].botId,
                                   botName |-> req[t].botName])
    /\ pc' = [pc EXCEPT ![t] = "r200"]
    /\ cur' = 0

\* line 167: setPixel has returned (its value is not read); recordPlacement,
\* and without a cache the rest of the handler
ApiRecord(t) ==
    /\ Alive
    /\ cur = t
    /\ pc[t] = "rl_record"
    /\ IF useRedis
       THEN /\ \E o \in Outcomes(cacheMode) :
                 /\ redisCooldown' =
                      (IF o = "ok"
                       THEN [redisCooldown EXCEPT ![req[t].botId] = now + COOLDOWN_MS]
                       ELSE redisCooldown)
                 /\ resp' = [resp EXCEPT ![t] = o]
                 /\ effects' = (IF o = "ok"
                                THEN [effects EXCEPT ![t] = Append(@, "cooldown")]
                                ELSE effects)
            /\ pc' = [pc EXCEPT ![t] = "rl_set"]
            /\ cur' = 0
            /\ UNCHANGED <<lastPlacement, pixelsPlaced, emitted>>
       ELSE /\ lastPlacement' = [lastPlacement EXCEPT ![req[t].botId] = now]
            /\ effects' = [effects EXCEPT ![t] = @ \o <<"cooldown", "count", "emit">>]
            /\ Announce(t)
            /\ UNCHANGED <<redisCooldown, resp>>
    /\ ret' = "none"
    /\ UNCHANGED <<canvasVars, timeouts, now, initPc, flushPc, useRedis, cacheMode,
                   redisCanvas, redisPixelInfo, redisBotStats, redisRecent,
                   req, lastGet, escaped, placed, shadow, timerWrites>>

\* lines 167-189: setCooldown has its answer; the counter, the broadcast and
\* the answer
ApiRecorded(t) ==
    /\ LoopFree
    /\ pc[t] = "rl_set"
    /\ IF resp[t] = "fail"
       THEN /\ Crash(t)
            /\ UNCHANGED <<pixelsPlaced, emitted, effects>>
       ELSE /\ Announce(t)
            /\ effects' = [effects EXCEPT ![t] = @ \o <<"count", "emit">>]
            /\ resp' = [resp EXCEPT ![t] = "none"]
            /\ ret' = "none"
            /\ UNCHANGED escaped
    /\ UNCHANGED <<canvasVars, timeouts, now, initPc, flushPc, useRedis, cacheMode,
                   redisVars, lastPlacement, req, lastGet, placed, shadow,
                   timerWrites>>

\* the server without a cache, with a cache that answers, with one that fails
InitApi ==
    \/ StartState(FALSE, "up", <<>>, <<>>) /\ ArchiveIdle
    \/ StartState(TRUE, "up", <<>>, <<>>) /\ ArchiveIdle
    \/ StartState(TRUE, "down", <<>>, <<>>) /\ ArchiveIdle

NextApi ==
    \/ CanvasInitStart /\ UNCHANGED archiveVars
    \/ CanvasInitLoaded /\ UNCHANGED archiveVars
    \/ CanvasInitFeed /\ UNCHANGED archiveVars
    \/ \E t \in Tasks, r \in Requests : ApiStart(t, r) /\ UNCHANGED archiveVars
    \/ \E t \in Tasks : ApiCooldownChecked(t) /\ UNCHANGED archiveVars
    \/ \E t \in Tasks : SetPixelInfoDone(t) /\ UNCHANGED archiveVars
    \/ \E t \in Tasks : SetPixelIncrDone(t) /\ UNCHANGED archiveVars
    \/ \E t \in Tasks : SetPixelZaddDone(t) /\ UNCHANGED archiveVars
    \/ \E t \in Tasks : SetPixelTrimDone(t) /\ UNCHANGED archiveVars
    \/ \E t \in Tasks : ApiRecord(t) /\ UNCHANGED archiveVars
    \/ \E t \in Tasks : ApiRecorded(t) /\ UNCHANGED archiveVars
    \/ Tick /\ UNCHANGED archiveVars

SpecApi == InitApi /\ [][NextApi]_vars

\* ---- POST /api/pixel: cooldown, broadcast, rejection ----------------------
\* the request of task t has been applied to the grid
Applied(t) == \E i \in DOMAIN effects[t] : effects[t][i] = "grid"
\* the position of the first effect e of task t, 0 when it has none
EffectIndex(t, e) ==
    IF \E i \in DOMAIN effects[t] : effects[t][i] = e
    THEN CHOOSE i \in DOMAIN effects[t] :
             effects[t][i] = e /\ \A j \in 1..(i-1) : effects[t][j] # e
    ELSE 0
Abs(n) == IF n < 0 THEN -n ELSE n

\* C8: any two placements of one bot applied through POST /pixel are at
\* least the cooldown apart, whatever the interleaving of its requests
C8_CooldownRespected ==
    \A t1 \in Tasks, t2 \in Tasks :
        (t1 # t2 /\ Applied(t1) /\ Applied(t2) /\ req[t1].botId = req[t2].botId)
            => Abs(req[t1].timestamp - req[t2].timestamp) >= COOLDOWN_MS

\* the request of task t has just been answered with success
Answered(t) == pc[t] # "r200" /\ pc'[t] = "r200"

\* the cell a request named holds what the request placed
CellShows(t) ==
    pixels[req[t].y][req[t].x] =
        [color |-> req[t].color, botId |-> req[t].botId, placedAt |-> req[t].timestamp]

\* another request was applied to the cell of task t
Overwritten(t) ==
    \E u \in Tasks \ {t} :
        Applied(u) /\ req[u].x = req[t].x /\ req[u].y = req[t].y

\* C9: a 'pixel' event is emitted only after its placement is in the grid:
\* every event emitted belongs to a request already applied, with the same
\* cell, color and bot, and in the step that emits it the cell holds that
\* placement unless a later request has overwritten it
C9_BroadcastAfterApply ==
    /\ [](/\ \A t \in Tasks :
               EffectIndex(t, "emit") > 0 =>
                   /\ EffectIndex(t, "grid") > 0
                   /\ EffectIndex(t, "grid") < EffectIndex(t, "emit")
          /\ \A i \in DOMAIN emitted :
               \E t \in Tasks :
                   /\ Applied(t)
                   /\ EffectIndex(t, "emit") > 0
                   /\ emitted[i] = [x |-> req[t].x, y |-> req[t].y,
                                    color |-> req[t].color, botId |-> req[t].botId,
                                    botName |-> BotName(req[t].botId)]
          /\ Len(emitted) = Cardinality({t \in Tasks : EffectIndex(t, "emit") > 0}))
    /\ [][\A t \in Tasks :
            /\ Answered(t) =>
                 /\ Len(emitted') = Len(emitted) + 1
                 /\ Applied(t)
                 /\ CellShows(t) \/ Overwritten(t)
            /\ Len(emitted') # Len(emitted) => \E u \in Tasks : Answered(u)
         ]_vars

\* C9 case: with a cache, two requests for the same cell were both applied
\* and both announced, the second overwriting the first
C9_Witness ==
    /\ useRedis
    /\ Len(emitted) = 2
    /\ pc[1] = "r200"
    /\ pc[2] = "r200"
    /\ req[1].x = req[2].x
    /\ req[1].y = req[2].y
    /\ req[1].color # req[2].color
    /\ emitted[1].color # emitted[2].color

\* the request carries no valid key, coordinates that are not numbers or are
\* outside the grid, or a color outside the palette
BadInput(r) ==
    \/ r.auth = "none"
    \/ KeyOwner(r.auth) = NULL
    \/ ~r.numeric
    \/ ~InBounds(r.x, r.y)
    \/ r.color \notin COLOR_NAMES

Refusals == {"r401", "r400", "r429"}

\* what a refused request must leave alone
protectedVars == <<pixels, colorCounts, recentPlacements, stateDirty, redisSaveTimer,
                   redisSavePending, timeouts, redisVars, lastPlacement,
                   pixelsPlaced, emitted, placed>>

\* C10: a POST /pixel that is refused (no or invalid key, coordinates not
\* numbers or out of range, color outside the palette, bot on cooldown) never
\* reaches the grid store: every request with such an input is refused, a
\* refused request has had no effect, and the steps of a request up to its
\* refusal leave the grid, colorCounts, the history, the cooldown record,
\* pixelsPlaced and the cache unchanged and emit nothing
C10_RejectedChangesNothing ==
    /\ [](\A t \in Tasks :
            /\ (req[t].kind = "api" /\ BadInput(req[t])) => pc[t] \in {"r401", "r400"}
            /\ pc[t] \in Refusals => effects[t] = <<>>
            /\ pc[t] = "rl_check" => effects[t] = <<>>)
    /\ [][\A t \in Tasks :
            (pc[t] # pc'[t] /\ pc'[t] \in Refusals \cup {"rl_check"})
                => UNCHANGED protectedVars]_vars

\* C10 case: a bot has placed a pixel and its next request, for another cell
\* and sent before the cooldown has passed, was refused with 429: the cell is
\* still white, one event was emitted and one placement counted
C10_Witness ==
    \E t \in Tasks, u \in Tasks :
        /\ pc[t] = "r200"
        /\ pc[u] = "r429"
        /\ req[t].botId = req[u].botId
        /\ req[u].x # req[t].x
        /\ pixels[req[u].y][req[u].x].color = "white"
        /\ Len(emitted) = 1
        /\ pixelsPlaced[req[t].botId] = 1

\* ---- services/archive.ts: loading, snapshots, retrieval -------------------
\* the outcome of one command sent to a durable store, or of one file
\* operation
StoreOutcomes == {"ok", "fail"}
\* fs.writeFileSync of the archive file (line 468) and of index.json (line
\* 473): both succeed, the first throws, or the second throws
LocalOutcomes == {"ok", "file_fail", "index_fail"}

\* the server answers requests once init() of index.ts has resolved, which
\* includes archiveService.init()
Serving == Listening /\ loadPc = "done"

\* a faulty unshift: the entry is pushed at the end
UnshiftAsPush(index, sn) == Append(index, [id |-> sn.id, timestamp |-> sn.timestamp])

\* this.archives.unshift({ id, timestamp })
Unshift(index, sn) == <<[id |-> sn.id, timestamp |-> sn.timestamp]>> \o index

\* archive.ts loadArchives, lines 401-412: the local index file, when it
\* exists, replaces the index; an unreadable file empties it
LoadLocal(index, o) ==
    IF localIndex = <<>> THEN index
    ELSE IF o = "ok" THEN localIndex
    ELSE <<>>

\* loadArchives returns with this index (failed: a read of this load failed)
LoadEnds(index, failed) ==
    /\ archives' = index
    /\ loadPc' = "done"
    /\ loadResp' = NoListing
    /\ loaded' = [done |-> TRUE, failed |-> failed]

\* loadArchives waits for a listing
LoadWaits(listing, pos) ==
    /\ loadResp' = listing
    /\ loadPc' = pos
    /\ loaded' = NoLoaded
    /\ UNCHANGED archives

\* the listing of the object store being requested (storage.ts lines
\* 100-115): the index file when it can be read
S3IndexRead(failed, o) ==
    IF o = "ok" /\ s3Index # <<>> THEN [have |-> TRUE, list |-> s3Index, failed |-> failed]
    ELSE [have |-> FALSE, list |-> <<>>, failed |-> failed \/ o = "fail"]

\* loadArchives from line 386: the object store when configured, else the
\* local index
LoadBelowDb(failed, o) ==
    IF useS3 THEN LoadWaits(S3IndexRead(failed, o), "s3_index")
    ELSE LoadEnds(LoadLocal(archives, o), failed \/ (localIndex # <<>> /\ o = "fail"))

loadFrame == <<canvasVars, runtimeVars, useRedis, cacheMode, redisVars, serviceVars,
               taskVars, emitted, historyVars, archiveConstant, nextSnapshotTime,
               snapshotTimer, storeVars, snapPc, snap, getPc, getReq, created>>

\* archive.ts loadArchives, lines 371-384: called by init() of index.ts after
\* canvas.init(); the first configured store is asked for its listing
LoadStart ==
    /\ LoopFree
    /\ initPc = "done"
    /\ loadPc = "start"
    /\ \E o \in StoreOutcomes :
         IF usePostgres
         THEN LoadWaits([have |-> TRUE,
                         list |-> IF o = "ok" THEN SelectArchives(dbArchives) ELSE <<>>,
                         failed |-> o = "fail"], "db")
         ELSE LoadBelowDb(FALSE, o)
    /\ ret' = "none"
    /\ firing' = NoFiring
    /\ answer' = NoAnswer
    /\ UNCHANGED loadFrame

\* loadArchives, lines 375-399: the relational listing has arrived; it is
\* adopted when it is not empty, otherwise the next store is asked
LoadDbDone ==
    /\ LoopFree
    /\ loadPc = "db"
    /\ IF Len(loadResp.list) > 0
       THEN LoadEnds(loadResp.list, loadResp.failed)
       ELSE \E o \in StoreOutcomes : LoadBelowDb(loadResp.failed, o)
    /\ ret' = "none"
    /\ firing' = NoFiring
    /\ answer' = NoAnswer
    /\ UNCHANGED loadFrame

\* storage.ts listArchivesFromS3, lines 109-124, and loadArchives lines
\* 389-395: the index file has been read and is adopted, or it is missing and
\* the objects are listed
LoadS3IndexDone ==
    /\ LoopFree
    /\ loadPc = "s3_index"
    /\ IF loadResp.have
       THEN LoadEnds(DropKeys(loadResp.list), loadResp.failed)
       ELSE \E o \in StoreOutcomes :
              LoadWaits([have |-> TRUE,
                         list |-> IF o = "ok" THEN ListObjects(s3Objects) ELSE <<>>,
                         failed |-> loadResp.failed \/ o = "fail"], "s3_list")
    /\ ret' = "none"
    /\ firing' = NoFiring
    /\ answer' = NoAnswer
    /\ UNCHANGED loadFrame

\* listArchivesFromS3, lines 126-144, and loadArchives lines 389-395: the
\* listing built from the objects (empty when the request failed) is adopted
LoadS3ListDone ==
    /\ LoopFree
    /\ loadPc = "s3_list"
    /\ LoadEnds(DropKeys(loadResp.list), loadResp.failed)
    /\ ret' = "none"
    /\ firing' = NoFiring
    /\ answer' = NoAnswer
    /\ UNCHANGED loadFrame

\* ---- performSnapshot and saveCanvas ---------------------------------------
\* the variables of the canvas and of the placement path that the archive
\* service never writes (getState writes cachedColors and stateDirty)
snapshotFrame == <<pixels, recentPlacements, initialized, colorCounts, redisSaveTimer,
                   redisSavePending, runtimeVars, useRedis, cacheMode, redisVars,
                   serviceVars, taskVars, emitted, escaped, placed, shadow, timerWrites,
                   effects, archiveConstant, loadPc, loadResp, getPc, getReq>>

\* one command of a firing, for the record of the firing
Wrote(sn, store, o) == [sn EXCEPT !.writes = Append(@, [store |-> store, outcome |-> o])]
\* one archives.unshift of a firing
Recorded(sn) == [sn EXCEPT !.recorded = @ + 1]

\* a faulty end of performSnapshot: the next time is counted from the time
\* that was due, not from the clock
EndedOnGrid(sn, index, thrown) ==
    LET next == IF thrown THEN nextSnapshotTime ELSE nextSnapshotTime + CYCLE_MS
        timer == IF thrown THEN NoTime ELSE scheduleSnapshot(nextSnapshotTime + CYCLE_MS, now)
    IN /\ archives' = index
       /\ nextSnapshotTime' = next
       /\ snapshotTimer' = timer
       /\ snapPc' = "idle"
       /\ snap' = NoSnap
       /\ firing' = [ended |-> TRUE, id |-> sn.id, timestamp |-> sn.timestamp,
                     state |-> sn.state, due |-> nextSnapshotTime,
                     before |-> sn.before, after |-> index, recorded |-> sn.recorded,
                     writes |-> sn.writes, thrown |-> thrown, next |-> next,
                     timer |-> timer, endedAt |-> now]

\* performSnapshot has ended: it returned after lines 432-433 (the next time
\* is set and the next callback armed), or saveCanvas threw (thrown) and the
\* rejection of performSnapshot, which nothing awaits, is only logged by the
\* unhandledRejection handler of index.ts
Ended(sn, index, thrown) ==
    LET next == IF thrown THEN nextSnapshotTime ELSE now + CYCLE_MS
        timer == IF thrown THEN NoTime ELSE scheduleSnapshot(now + CYCLE_MS, now)
    IN /\ archives' = index
       /\ nextSnapshotTime' = next
       /\ snapshotTimer' = timer
       /\ snapPc' = "idle"
       /\ snap' = NoSnap
       /\ firing' = [ended |-> TRUE, id |-> sn.id, timestamp |-> sn.timestamp,
                     state |-> sn.state, due |-> nextSnapshotTime,
                     before |-> sn.before, after |-> index, recorded |-> sn.recorded,
                     writes |-> sn.writes, thrown |-> thrown, next |-> next,
                     timer |-> timer, endedAt |-> now]

\* a faulty fallback: the file is written from the grid of the moment of the
\* write
SaveLocalLate(sn, o) ==
    /\ UNCHANGED <<dbArchives, s3Objects, s3Index>>
    /\ IF o = "file_fail"
       THEN /\ UNCHANGED <<localFiles, localIndex>>
            /\ Ended(Wrote(sn, "local", "fail"), archives, TRUE)
       ELSE /\ localFiles' = Put(localFiles, sn.id, JsonStringify(StateOf(Flatten(pixels))))
            /\ localIndex' = (IF o = "ok" THEN Unshift(archives, sn) ELSE localIndex)
            /\ Ended(Recorded(Wrote(Wrote(sn, "local", "ok"), "local_index",
                                    IF o = "ok" THEN "ok" ELSE "fail")),
                     Unshift(archives, sn), o # "ok")

\* saveCanvas, lines 465-474: the local files
SaveLocal(sn, o) ==
    /\ UNCHANGED <<dbArchives, s3Objects, s3Index>>
    /\ IF o = "file_fail"
       THEN /\ UNCHANGED <<localFiles, localIndex>>
            /\ Ended(Wrote(sn, "local", "fail"), archives, TRUE)
       ELSE /\ localFiles' = Put(localFiles, sn.id, JsonStringify(sn.state))
            /\ localIndex' = (IF o = "ok" THEN Unshift(archives, sn) ELSE localIndex)
            /\ Ended(Recorded(Wrote(Wrote(sn, "local", "ok"), "local_index",
                                    IF o = "ok" THEN "ok" ELSE "fail")),
                     Unshift(archives, sn), o # "ok")

\* a faulty scheduler: the callback stays armed while saveCanvas waits
WaitingTimerKept(sn, pos) ==
    /\ snapPc' = pos
    /\ snap' = sn
    /\ firing' = NoFiring
    /\ UNCHANGED <<archives, nextSnapshotTime, snapshotTimer>>

\* a command to a store has been issued and saveCanvas waits for its outcome
Waiting(sn, pos) ==
    /\ snapPc' = pos
    /\ snap' = sn
    /\ snapshotTimer' = NoTime
    /\ firing' = NoFiring
    /\ UNCHANGED <<archives, nextSnapshotTime>>

\* saveCanvas, lines 455-456, and storage.ts lines 43-56: the object is put
SaveS3(sn, o) ==
    /\ s3Objects' = (IF o = "ok"
                     THEN Put(s3Objects, S3Key(sn.id),
                              [body |-> JsonStringify(sn.state), lastModified |-> now])
                     ELSE s3Objects)
    /\ Waiting(Wrote(sn, "s3", o), IF o = "ok" THEN "s3_put_ok" ELSE "s3_put_fail")
    /\ UNCHANGED <<dbArchives, s3Index, localFiles, localIndex>>

\* saveCanvas, lines 444-445, and database.ts lines 195-200: the row is inserted
SaveDb(sn, o) ==
    /\ dbArchives' = (IF o = "ok"
                      THEN InsertArchive(dbArchives, sn.id, sn.timestamp,
                                         JsonStringify(sn.state))
                      ELSE dbArchives)
    /\ Waiting(Wrote(sn, "db", o), IF o = "ok" THEN "db_ok" ELSE "db_fail")
    /\ UNCHANGED <<s3Objects, s3Index, localFiles, localIndex>>

\* saveCanvas from line 454: the object store when configured, else the files
SaveBelowDb(sn, os, ol) == IF useS3 THEN SaveS3(sn, os) ELSE SaveLocal(sn, ol)

\* a faulty saveCanvas: the relational store is never tried
saveCanvasSkipDb(sn, od, os, ol) == SaveBelowDb(sn, os, ol)

\* saveCanvas from line 443
saveCanvas(sn, od, os, ol) ==
    IF usePostgres THEN SaveDb(sn, od) ELSE SaveBelowDb(sn, os, ol)

\* the callback armed by scheduleSnapshot runs, at the due time or later:
\* performSnapshot calls saveCanvas, which reads the clock and the canvas
\* (lines 439-441) and turns to the first configured store
SnapshotFire ==
    /\ LoopFree
    /\ snapshotTimer # NoTime
    /\ now >= snapshotTimer
    /\ cachedColors' = getState.cachedColors
    /\ stateDirty' = getState.stateDirty
    /\ lastGet' = getState.colors
    /\ created' = Put(created, ArchiveId(now), StateOf(getState.colors))
    /\ \E od \in StoreOutcomes, os \in StoreOutcomes, ol \in LocalOutcomes :
         saveCanvas([id |-> ArchiveId(now), timestamp |-> now,
                     state |-> StateOf(getState.colors), index |-> <<>>,
                     before |-> archives, recorded |-> 0, writes |-> <<>>],
                    od, os, ol)
    /\ ret' = "none"
    /\ loaded' = NoLoaded
    /\ answer' = NoAnswer
    /\ UNCHANGED snapshotFrame

\* saveCanvas, lines 446-452: the insert has been answered
SnapshotDbDone ==
    /\ LoopFree
    /\ snapPc \in {"db_ok", "db_fail"}
    /\ IF snapPc = "db_ok"
       THEN /\ Ended(Recorded(snap), Unshift(archives, snap), FALSE)
            /\ UNCHANGED storeVars
       ELSE \E os \in StoreOutcomes, ol \in LocalOutcomes : SaveBelowDb(snap, os, ol)
    /\ ret' = "none"
    /\ loaded' = NoLoaded
    /\ answer' = NoAnswer
    /\ UNCHANGED <<snapshotFrame, cachedColors, stateDirty, lastGet, created>>

\* storage.ts lines 56-59 and 158-166: the put has been answered; after a
\* success updateArchiveIndex asks for the index file, and takes it to be
\* absent when the request fails
SnapshotS3PutDone ==
    /\ LoopFree
    /\ snapPc \in {"s3_put_ok", "s3_put_fail"}
    /\ IF snapPc = "s3_put_ok"
       THEN /\ \E o \in StoreOutcomes :
                 Waiting([snap EXCEPT !.index = IF o = "ok" THEN s3Index ELSE <<>>],
                         "s3_index_read")
            /\ UNCHANGED storeVars
       ELSE \E ol \in LocalOutcomes : SaveLocal(snap, ol)
    /\ ret' = "none"
    /\ loaded' = NoLoaded
    /\ answer' = NoAnswer
    /\ UNCHANGED <<snapshotFrame, cachedColors, stateDirty, lastGet, created>>

\* storage.ts updateArchiveIndex, lines 174-185: the entry is put in front of
\* the index read and the index file is written
SnapshotS3IndexRead ==
    /\ LoopFree
    /\ snapPc = "s3_index_read"
    /\ \E o \in StoreOutcomes :
         /\ s3Index' = (IF o = "ok"
                        THEN <<[id |-> snap.id, timestamp |-> snap.timestamp,
                                key |-> S3Key(snap.id)]>> \o snap.index
                        ELSE s3Index)
         /\ Waiting(Wrote(snap, "s3_index", o),
                    IF o = "ok" THEN "s3_index_ok" ELSE "s3_index_fail")
    /\ UNCHANGED <<dbArchives, s3Objects, localFiles, localIndex>>
    /\ ret' = "none"
    /\ loaded' = NoLoaded
    /\ answer' = NoAnswer
    /\ UNCHANGED <<snapshotFrame, cachedColors, stateDirty, lastGet, created>>

\* storage.ts lines 59-65 and saveCanvas lines 457-463: saveArchiveToS3 has
\* returned true, or false after the write of the index file failed
SnapshotS3IndexDone ==
    /\ LoopFree
    /\ snapPc \in {"s3_index_ok", "s3_index_fail"}
    /\ IF snapPc = "s3_index_ok"
       THEN /\ Ended(Recorded(snap), Unshift(archives, snap), FALSE)
            /\ UNCHANGED storeVars
       ELSE \E ol \in LocalOutcomes : SaveLocal(snap, ol)
    /\ ret' = "none"
    /\ loaded' = NoLoaded
    /\ answer' = NoAnswer
    /\ UNCHANGED <<snapshotFrame, cachedColors, stateDirty, lastGet, created>>

\* ---- getArchive -----------------------------------------------------------
\* what the verification notes about a call of getArchive: whether the id was
\* in the index when the call began, the stores consulted, in order, and
\* those whose read failed
CallNote(id) == [listed |-> \E i \in 1..Len(archives) : archives[i].id = id,
                 asked |-> <<>>, failed |-> {}]
Consulted(note, store, o) ==
    [note EXCEPT !.asked = Append(@, store),
                 !.failed = IF o = "fail" THEN @ \cup {store} ELSE @]

\* getArchive returns data to its caller
Return(id, data, note) ==
    /\ answer' = [returned |-> TRUE, id |-> id, data |-> data, note |-> note]
    /\ getPc' = "idle"
    /\ getReq' = NoGet

\* a store has been asked for the archive and getArchive waits for the answer
Asked(id, data, note, pos) ==
    /\ getReq' = [id |-> id, data |-> data, note |-> note]
    /\ getPc' = pos
    /\ answer' = NoAnswer

\* getArchive, lines 506-516: the local file
GetLocal(id, note, o) ==
    IF id \notin DOMAIN localFiles THEN Return(id, NoData, Consulted(note, "local", "ok"))
    ELSE IF o = "ok" THEN Return(id, JsonParse(localFiles[id]), Consulted(note, "local", o))
    ELSE Return(id, NoData, Consulted(note, "local", o))

\* getArchive, lines 497-499, and storage.ts lines 75-92
GetS3(id, note, o) ==
    Asked(id, IF o = "ok" THEN GetObject(s3Objects, id) ELSE NoData,
          Consulted(note, "s3", o), "s3")

GetBelowDbSkipS3(id, note, os, ol) == GetLocal(id, note, ol)

\* getArchive from line 496
GetBelowDb(id, note, os, ol) ==
    IF useS3 THEN GetS3(id, note, os) ELSE GetLocal(id, note, ol)

getArchiveFrame == <<canvasVars, runtimeVars, useRedis, cacheMode, redisVars, serviceVars,
                     taskVars, emitted, historyVars, archiveConstant, archiveFields,
                     storeVars, snapPc, snap, loadPc, loadResp, created>>

\* GET /api/archives/:id calls getArchive(id) (lines 485-489 and database.ts
\* lines 214-223)
GetArchiveStart(id) ==
    /\ LoopFree
    /\ Serving
    /\ getPc = "idle"
    /\ \E o \in StoreOutcomes :
         IF usePostgres
         THEN Asked(id, IF o = "ok" THEN SelectArchive(dbArchives, id) ELSE NoData,
                    Consulted(CallNote(id), "db", o), "db")
         ELSE GetBelowDb(id, CallNote(id), o, o)
    /\ ret' = "none"
    /\ loaded' = NoLoaded
    /\ firing' = NoFiring
    /\ UNCHANGED getArchiveFrame

\* getArchive, line 490: the relational store has answered
GetArchiveDbDone ==
    /\ LoopFree
    /\ getPc = "db"
    /\ IF getReq.data # NoData
       THEN Return(getReq.id, getReq.data, getReq.note)
       ELSE \E o \in StoreOutcomes : GetBelowDb(getReq.id, getReq.note, o, o)
    /\ ret' = "none"
    /\ loaded' = NoLoaded
    /\ firing' = NoFiring
    /\ UNCHANGED getArchiveFrame

\* getArchive, line 500: the object store has answered
GetArchiveS3Done ==
    /\ LoopFree
    /\ getPc = "s3"
    /\ IF getReq.data # NoData
       THEN Return(getReq.id, getReq.data, getReq.note)
       ELSE \E ol \in StoreOutcomes : GetLocal(getReq.id, getReq.note, ol)
    /\ ret' = "none"
    /\ loaded' = NoLoaded
    /\ firing' = NoFiring
    /\ UNCHANGED getArchiveFrame

\* time passes between two callbacks
ArchiveTick ==
    /\ LoopFree
    /\ now < MaxClock
    /\ now' = now + 1
    /\ ret' = "none"
    /\ loaded' = NoLoaded
    /\ firing' = NoFiring
    /\ answer' = NoAnswer
    /\ UNCHANGED <<canvasVars, timeouts, cur, initPc, flushPc, useRedis, cacheMode,
                   redisVars, serviceVars, taskVars, emitted, historyVars, archiveConstant,
                   archiveFields, storeVars, archiveTaskVars, created>>

\* the canvas and the requests leave the archive service alone
archiveRest == <<archiveConstant, archiveFields, storeVars, archiveTaskVars, created>>

\* the ids a client asks for: those of the snapshots taken so far, of the
\* entries of the index, and one that no store holds
RequestIds ==
    DOMAIN created \cup {archives[i].id : i \in 1..Len(archives)} \cup {ArchiveId(MaxClock + 1)}
\* the cells painted while the scheduler is observed
ArchiveCells == {<<1, 0>>}

\* what an earlier process may have left: the row of the archive of time 0;
\* the object of the archive of time 1, with or without the index file; the
\* files of both archives and the local index
SeedRows ==
    <<[id |-> ArchiveId(0), timestamp |-> 0, canvas_data |-> JsonStringify(SeedState(0))]>>
SeedObjects ==
    [k \in {S3Key(ArchiveId(1))} |->
        [body |-> JsonStringify(SeedState(1)), lastModified |-> 1]]
SeedS3Index == <<[id |-> ArchiveId(1), timestamp |-> 1, key |-> S3Key(ArchiveId(1))]>>
SeedFiles == [k \in {ArchiveId(0), ArchiveId(1)} |-> JsonStringify(SeedState(k[2]))]
SeedLocalIndex == <<SeedArchive(1), SeedArchive(0)>>

InitArchive ==
    /\ StartState(FALSE, "up", <<>>, <<>>)
    /\ \E pg \in BOOLEAN, s3 \in BOOLEAN :
         ArchiveStart(pg, s3, <<>>, NoObjects, <<>>, NoObjects, <<>>)

NextArchive ==
    \/ CanvasInitStart /\ answer' = NoAnswer /\ firing' = NoFiring /\ loaded' = NoLoaded
                       /\ UNCHANGED archiveRest
    \/ \E at \in ArchiveCells :
         /\ Serving
         /\ placed < MaxArchivePlacements
         /\ DirectSetPixelSync(at[1], at[2], "red", "bot_1")
         /\ answer' = NoAnswer
         /\ firing' = NoFiring
         /\ loaded' = NoLoaded
         /\ UNCHANGED archiveRest
    \/ LoadStart
    \/ LoadDbDone
    \/ LoadS3IndexDone
    \/ LoadS3ListDone
    \/ SnapshotFire
    \/ SnapshotDbDone
    \/ SnapshotS3PutDone
    \/ SnapshotS3IndexRead
    \/ SnapshotS3IndexDone
    \/ \E id \in RequestIds : GetArchiveStart(id)
    \/ GetArchiveDbDone
    \/ GetArchiveS3Done
    \/ ArchiveTick

SpecArchive == InitArchive /\ [][NextArchive]_vars

\* ---- startup and retrieval over stores that already hold archives --------
InitLoad ==
    /\ StartState(FALSE, "up", <<>>, <<>>)
    /\ \E pg \in BOOLEAN, s3 \in BOOLEAN,
          rows \in {<<>>, SeedRows},
          bucket \in {<<NoObjects, <<>>>>, <<SeedObjects, SeedS3Index>>, <<SeedObjects, <<>>>>},
          dir \in {<<NoObjects, <<>>>>, <<SeedFiles, SeedLocalIndex>>} :
         ArchiveStart(pg, s3, rows, bucket[1], bucket[2], dir[1], dir[2])

\* the ids asked for: those of the earlier archives and one that no store holds
LoadRequestIds == {ArchiveId(0), ArchiveId(1), ArchiveId(MaxClock + 1)}

NextLoad ==
    \/ CanvasInitStart /\ answer' = NoAnswer /\ firing' = NoFiring /\ loaded' = NoLoaded
                       /\ UNCHANGED archiveRest
    \/ LoadStart
    \/ LoadDbDone
    \/ LoadS3IndexDone
    \/ LoadS3ListDone
    \/ \E id \in LoadRequestIds : GetArchiveStart(id)
    \/ GetArchiveDbDone
    \/ GetArchiveS3Done

SpecLoad == InitLoad /\ [][NextLoad]_vars

\* ---- the snapshot scheduler: index, round trip, failures, timing ---------
\* a store accepted the archive of firing f: the row was inserted, the object
\* and its index were put, or the archive file was written
Accepted(f) ==
    \E i \in 1..Len(f.writes) :
        /\ f.writes[i].store \in {"db", "s3_index", "local"}
        /\ f.writes[i].outcome = "ok"

\* the entry of the archive made at time t
EntryAt(t) == [id |-> ArchiveId(t), timestamp |-> t]

\* the time saveCanvas read when the firing in progress (or starting in this
\* step) began
SnapshotTime == IF snapPc = "idle" THEN now ELSE snap.timestamp

Stored ==
    [store \in {"db", "s3", "local"} |->
        IF store = "db"
        THEN [id \in {dbArchives[i].id : i \in 1..Len(dbArchives)} |->
                 (dbArchives[CHOOSE i \in 1..Len(dbArchives) : dbArchives[i].id = id]).canvas_data]
        ELSE IF store = "s3"
        THEN [id \in {IdOfKey(k) : k \in DOMAIN s3Objects} |-> s3Objects[S3Key(id)].body]
        ELSE localFiles]

C13_SchedulerSurvives ==
    firing.ended =>
        /\ ~firing.thrown
        /\ ~Accepted(firing) => (firing.recorded = 0 /\ archives = firing.before)
        /\ nextSnapshotTime > firing.due
        /\ snapshotTimer # NoTime
        /\ snapshotTimer = nextSnapshotTime

WriteRank(store) ==
    CASE store = "db" -> 1
      [] store = "s3" -> 2
      [] store = "s3_index" -> 3
      [] store = "local" -> 4
      [] store = "local_index" -> 5

\* the writes w of one snapshot keep to the priority of the stores
InPriority(w) ==
    /\ \A i \in 1..Len(w) : \A j \in (i + 1)..Len(w) :
          WriteRank(w[i].store) < WriteRank(w[j].store)
    /\ \A i \in 1..Len(w) :
          /\ w[i].store = "db" => usePostgres
          /\ w[i].store \in {"s3", "s3_index"} => useS3
          \* nothing is written after the store that accepted the archive
          /\ (w[i].store \in {"db", "s3_index"} /\ w[i].outcome = "ok") => i = Len(w)
          /\ (w[i].store = "local" /\ w[i].outcome = "ok")
                => \A j \in (i + 1)..Len(w) : w[j].store = "local_index"
          \* a store is written only after each configured store before it failed
          /\ (w[i].store \in {"s3", "local"} /\ usePostgres)
                => \E j \in 1..(i - 1) : w[j].store = "db" /\ w[j].outcome = "fail"
          /\ (w[i].store = "local" /\ useS3)
                => \E j \in 1..(i - 1) :
                      w[j].store \in {"s3", "s3_index"} /\ w[j].outcome = "fail"

\* C15: the writes of a snapshot, while it runs and when it has ended, go to
\* the configured stores in the order relational store, object store, local
\* file, stop at the first store that accepts, reach a store only after every
\* configured store before it failed, and the snapshot puts its archive in
\* the index at most once
C15_BackendPriority ==
    /\ InPriority(snap.writes)
    /\ snap.recorded = 0
    /\ firing.ended => (InPriority(firing.writes) /\ firing.recorded <= 1)

\* both stores are configured; the insert failed, the object was put but its
\* index was not, and the local file took the archive
C15_Witness ==
    /\ usePostgres
    /\ useS3
    /\ firing.ended
    /\ firing.recorded = 1
    /\ Len(firing.writes) = 5
    /\ firing.writes[1] = [store |-> "db", outcome |-> "fail"]
    /\ firing.writes[2] = [store |-> "s3", outcome |-> "ok"]
    /\ firing.writes[3] = [store |-> "s3_index", outcome |-> "fail"]
    /\ firing.writes[4] = [store |-> "local", outcome |-> "ok"]
    /\ firing.writes[5] = [store |-> "local_index", outcome |-> "ok"]

\* ---- loading the index and fetching an archive ---------------------------
\* what each store lists when it is configured and answers
DbListing == IF usePostgres THEN SelectArchives(dbArchives) ELSE <<>>
S3Listing ==
    IF useS3 THEN DropKeys(IF s3Index # <<>> THEN s3Index ELSE ListObjects(s3Objects))
    ELSE <<>>
LocalListing == localIndex

\* the listing of the first store, in the order relational store, object
\* store, local file, whose listing is not empty
FirstNonEmpty ==
    IF DbListing # <<>> THEN DbListing
    ELSE IF S3Listing # <<>> THEN S3Listing
    ELSE LocalListing

\* C16: when loadArchives returns, the index is the listing of one store,
\* never a merge of several, and, when no read failed, the listing of the
\* first store whose listing is not empty: a configured store that lists
\* nothing does not keep the listing of a later store from being adopted
C16_FirstNonEmptyListing ==
    loaded.done =>
        /\ archives \in {<<>>, DbListing, S3Listing, LocalListing}
        /\ ~loaded.failed => archives = FirstNonEmpty

\* the stores getArchive is to search, in the order of their priority
SearchOrder ==
    (IF usePostgres THEN <<"db">> ELSE <<>>) \o (IF useS3 THEN <<"s3">> ELSE <<>>)
        \o <<"local">>

\* the place in SearchOrder of the first store among those not in `down`
\* that holds id; one past the end when there is none
FirstHolder(id, down) ==
    LET hits == {i \in 1..Len(SearchOrder) :
                    SearchOrder[i] \notin down /\ id \in DOMAIN Stored[SearchOrder[i]]}
    IN IF hits = {} THEN Len(SearchOrder) + 1
       ELSE CHOOSE i \in hits : \A j \in hits : i <= j

\* what getArchive(id) is to return when the reads of the stores in `down`
\* fail: the contents the first holder has, null when there is no holder
Found(id, down) ==
    IF FirstHolder(id, down) > Len(SearchOrder) THEN NoData
    ELSE JsonParse(Stored[SearchOrder[FirstHolder(id, down)]][id])

\* C17 as stated: getArchive(id) returns the contents held by the first
\* configured store that holds the id, and null exactly when no configured
\* store holds it
C17_NullIffAbsent ==
    answer.returned =>
        /\ answer.data = Found(answer.id, {})
        /\ answer.data = NoData
              <=> \A i \in 1..Len(SearchOrder) : answer.id \notin DOMAIN Stored[SearchOrder[i]]

\* C17, amended: getArchive(id) consults the configured stores in the order
\* relational store, object store, local file, and stops at the first that
\* answers with contents; a store that fails or lacks the id is passed over;
\* with no archive being written during the call, the result is null exactly
\* when no configured store whose read succeeded holds the id
C17_FirstAnsweringHolder ==
    answer.returned =>
        LET down == answer.note.failed
            asked == answer.note.asked
        IN /\ answer.data = Found(answer.id, down)
           /\ Len(asked) = Min(FirstHolder(answer.id, down), Len(SearchOrder))
           /\ asked = SubSeq(SearchOrder, 1, Len(asked))
           /\ answer.data = NoData <=> FirstHolder(answer.id, down) > Len(SearchOrder)

\* both stores are configured; the row exists but the relational read failed,
\* the object store lacks the id, and the local file gave the contents
C17_Witness ==
    /\ answer.returned
    /\ usePostgres
    /\ useS3
    /\ answer.id \in DOMAIN Stored["db"]
    /\ answer.id \notin DOMAIN Stored["s3"]
    /\ answer.note.failed = {"db"}
    /\ answer.note.asked = <<"db", "s3", "local">>
    /\ answer.data = SeedState(0)

\* ---- the placement history --------------------------------------------------
\* a placement step appends one record {x, y, color, botId, timestamp}, taken
\* at the current time for the cell it paints, at the end of the history, and
\* drops the oldest record when that takes the history over the capacity
AppendsOneRecord ==
    PlacementStep =>
        LET r == recentPlacements'[Len(recentPlacements')]
            pushed == Append(recentPlacements, r)
        IN /\ Len(recentPlacements') >= 1
           /\ DOMAIN r = {"x", "y", "color", "botId", "timestamp"}
           /\ r.timestamp = now
           /\ pixels'[r.y][r.x].color = r.color
           /\ recentPlacements' =
                 IF Len(pushed) > HISTORY_CAPACITY THEN Tail(pushed) ELSE pushed
HistoryAppendEvict == [][AppendsOneRecord]_vars

\* C18: in every reachable state, also after init has seeded it from the
\* placements:recent feed, the placement history holds at most
\* HISTORY_CAPACITY records
C18_HistoryBounded == Len(recentPlacements) <= HISTORY_CAPACITY

\* the limits asked of getRecentPlacements
Limits == 0..MaxLimit

\* C19: for every limit >= 0, getRecentPlacements(limit) has
\* min(limit, length of the history) records, so none for limit 0, and these
\* are the last records of the history in their order
C19_LastLimit ==
    \A limit \in Limits :
        LET r == getRecentPlacements(limit)
            n == Len(recentPlacements)
        IN /\ Len(r) = Min(limit, n)
           /\ r = SubSeq(recentPlacements, n - Len(r) + 1, n)

\* ---- two writes of one cell and the counters -------------------------------
\* the canvas starts empty and without a cache
InitPair == StartState(FALSE, "up", <<>>, <<>>) /\ ArchiveIdle

\* callers paint cells one after the other through setPixel
NextPair ==
    \/ CanvasInitStart /\ UNCHANGED archiveVars
    \/ \E t \in Callers, at \in Cols \X Rows, c \in COLOR_NAMES, b \in BotIds :
         /\ DirectSetPixel(t, at[1], at[2], c, b)
         /\ lastSets' =
                LET set == [x |-> at[1], y |-> at[2], color |-> c, botId |-> b,
                            old |-> pixels[at[2]][at[1]].color, counts |-> colorCounts]
                IN IF Len(lastSets) = 2 THEN <<lastSets[2], set>>
                   ELSE Append(lastSets, set)
         /\ UNCHANGED <<archiveConfig, archiveFields, storeVars, archiveTaskVars,
                        archiveHistory, laterVars>>

SpecPair == InitPair /\ [][NextPair]_vars

\* the last two writes were of one cell and nothing was written between them
Pair == Len(lastSets) = 2 /\ lastSets[1].x = lastSets[2].x /\ lastSets[1].y = lastSets[2].y
\* the value of a counter before the pair
Before(c) == IF c \in DOMAIN lastSets[1].counts THEN lastSets[1].counts[c] ELSE 0

\* C20 as stated: after set(x,y,colorA,bot1) followed by set(x,y,colorB,bot2)
\* colorCounts[colorA] is 1 less and colorCounts[colorB] is 1 more than before
\* the pair
C20_PairCounts ==
    Pair =>
        /\ CountOf(lastSets[1].color) = Before(lastSets[1].color) - 1
        /\ CountOf(lastSets[2].color) = Before(lastSets[2].color) + 1

\* C20, amended: after set(x,y,colorA,bot1) followed by set(x,y,colorB,bot2)
\* the counter of the color the cell held before the pair is 1 less and
\* colorCounts[colorB] is 1 more than before the pair, the two cancelling when
\* they are one color; every other counter, that of colorA included, is as it
\* was before the pair
C20_PairNet ==
    Pair =>
        \A c \in COLOR_NAMES :
            CountOf(c) = Before(c) - (IF c = lastSets[1].old THEN 1 ELSE 0)
                                   + (IF c = lastSets[2].color THEN 1 ELSE 0)

\* a white cell was painted red by one bot and then blue by another: red is
\* back at its count and white has lost the cell
C20_Witness ==
    /\ Pair
    /\ lastSets[1].old = "white"
    /\ lastSets[1].color = "red"
    /\ lastSets[1].botId = "bot_1"
    /\ lastSets[2].color = "blue"
    /\ lastSets[2].botId = "bot_2"
    /\ CountOf("red") = Before("red")
    /\ CountOf("white") = Before("white") - 1

\* ---- the ownership scan and its cache --------------------------------------
\* getPixelOwnership, lines 233-241: the scan in row-major order; k is the
\* number of cells already visited
RECURSIVE ScanOwners(_, _)
ScanOwners(k, counts) ==
    IF k = CANVAS_WIDTH * CANVAS_HEIGHT THEN counts
    ELSE LET botId == pixels[k \div CANVAS_WIDTH][k % CANVAS_WIDTH].botId
         IN ScanOwners(k + 1, IF botId # NULL
                              THEN Put(counts, botId, OrElse(counts, botId, 0) + 1)
                              ELSE counts)

\* a faulty getPixelOwnership: a filled cache is returned whatever its age
getPixelOwnershipNoExpiry ==
    IF ownershipCache.have
    THEN [value |-> ownershipCache.counts, cache |-> ownershipCache,
          time |-> ownershipCacheTime, scanned |-> FALSE]
    ELSE LET counts == ScanOwners(0, EmptyRecord)
         IN [value |-> counts, cache |-> [have |-> TRUE, counts |-> counts],
             time |-> now, scanned |-> TRUE]

\* Canvas.getPixelOwnership: the map returned, the cache and its time after
\* the call, and whether the grid was scanned
getPixelOwnership ==
    IF ownershipCache.have /\ now - ownershipCacheTime < OWNERSHIP_CACHE_TTL_MS
    THEN [value |-> ownershipCache.counts, cache |-> ownershipCache,
          time |-> ownershipCacheTime, scanned |-> FALSE]
    ELSE LET counts == ScanOwners(0, EmptyRecord)
         IN [value |-> counts, cache |-> [have |-> TRUE, counts |-> counts],
             time |-> now, scanned |-> TRUE]

\* the owners of the cells
Owners == [y \in Rows |-> [x \in Cols |-> pixels[y][x].botId]]

\* a reader calls canvas.getPixelOwnership (GET /api/stats, the leaderboard)
GetPixelOwnership ==
    /\ LoopFree
    /\ Listening
    /\ LET m == getPixelOwnership
       IN /\ ownershipCache' = m.cache
          /\ ownershipCacheTime' = m.time
          /\ ownersAtScan' = IF m.scanned THEN Owners ELSE ownersAtScan
          /\ ownershipRead' = [returned |-> TRUE, value |-> m.value,
                               scanned |-> m.scanned, had |-> ownershipCache.have,
                               age |-> now - ownershipCacheTime]
    /\ ret' = "none"
    /\ UNCHANGED <<canvasVars, runtimeVars, useRedis, cacheMode, redisVars, serviceVars,
                   taskVars, emitted, historyVars, archiveConfig, archiveFields,
                   storeVars, archiveTaskVars, archiveHistory, lastSets, resetNote,
                   registryVars, tailVars, lastVars>>

\* the steps of the canvas and of the clock leave the cache of the scan alone
ownershipRest == <<ownershipCache, ownershipCacheTime, ownersAtScan, resetNote, registryVars, tailVars, lastVars>>

\* the canvas without an external cache, painted by two bots and read for
\* its ownership as time passes
InitOwnership == StartState(FALSE, "up", <<>>, <<>>) /\ ArchiveIdle

NextOwnership ==
    \/ CanvasInitStart /\ UNCHANGED archiveVars
    \/ \E at \in Cols \X Rows, b \in BotIds :
         /\ DirectSetPixelSync(at[1], at[2], "red", b)
         /\ ownershipRead' = NoOwnershipRead
         /\ UNCHANGED <<archiveConfig, archiveFields, storeVars, archiveTaskVars,
                        archiveHistory, lastSets, ownershipRest>>
    \/ /\ Tick
       /\ ownershipRead' = NoOwnershipRead
       /\ UNCHANGED <<archiveConfig, archiveFields, storeVars, archiveTaskVars,
                      archiveHistory, lastSets, ownershipRest>>
    \/ GetPixelOwnership

SpecOwnership == InitOwnership /\ [][NextOwnership]_vars

\* the number of cells bot b owned when the cache was last filled
OwnedAtScan(b) ==
    Cardinality({cell \in Cols \X Rows : ownersAtScan[cell[2]][cell[1]] = b})

\* C21: getPixelOwnership returns for every bot the number of cells it owned
\* at the most recent full scan, and that scan is less than the TTL old; a
\* read with no cache or a cache at least the TTL old scans the grid, a read
\* within the TTL returns the cached map without scanning
C21_OwnershipCache ==
    ownershipRead.returned =>
        /\ \A b \in BotIds :
              /\ b \in DOMAIN ownershipRead.value <=> OwnedAtScan(b) > 0
              /\ b \in DOMAIN ownershipRead.value => ownershipRead.value[b] = OwnedAtScan(b)
        /\ DOMAIN ownershipRead.value \subseteq BotIds
        /\ ownershipRead.value = ownershipCache.counts
        /\ now - ownershipCacheTime < OWNERSHIP_CACHE_TTL_MS
        /\ ownershipRead.scanned <=>
              (~ownershipRead.had \/ ownershipRead.age >= OWNERSHIP_CACHE_TTL_MS)
        /\ ownershipRead.scanned => (ownersAtScan = Owners /\ ownershipCacheTime = now)

\* a read within the TTL returned the cached counts although a cell has
\* changed hands since the scan
C21_Witness ==
    /\ ownershipRead.returned
    /\ ~ownershipRead.scanned
    /\ ownershipRead.age = 1
    /\ ownersAtScan # Owners
    /\ "bot_1" \in DOMAIN ownershipRead.value
    /\ "bot_2" \notin DOMAIN ownershipRead.value
    /\ pixels[0][0].botId = "bot_2"

\* ---- startup with a cache that answers some commands and fails others -----
\* the cache holds a grid and a feed of an earlier process
InitSeed ==
    \E s \in SeedPairs : StartState(TRUE, "flaky", Compress(s[1]), s[2]) /\ ArchiveIdle

\* init runs, and then callers paint
NextSeed ==
    \/ CanvasInitStart /\ UNCHANGED archiveVars
    \/ CanvasInitLoaded /\ UNCHANGED archiveVars
    \/ CanvasInitFeed /\ UNCHANGED archiveVars
    \/ \E at \in CallCoords, c \in PlaceColors, b \in PlaceBots :
         DirectSetPixelSync(at[1], at[2], c, b) /\ UNCHANGED archiveVars

SpecSeed == InitSeed /\ [][NextSeed]_vars

\* init has returned, or is at one of its awaits with the event loop free to
\* resume it
InitAdvances ==
    initPc # "done" =>
        /\ LoopFree
        /\ ~initialized
        /\ initPc \in {"start", "canvas_ok", "canvas_fail", "feed_ok", "feed_fail"}

\* C22: a failed grid load is followed by the load of the feed, which replaces
\* the history when it succeeds; a failed feed load leaves the grid, the
\* counters and the history as they were; whatever fails, init goes on to
\* its end, nothing is thrown, and the canvas is marked initialized
C22_SeedStepsIndependent ==
    /\ [](/\ escaped = {}
          /\ ret # "threw"
          /\ InitAdvances
          /\ initPc = "done" <=> initialized)
    /\ [][/\ (initPc = "canvas_fail" /\ initPc' # initPc)
               => (initPc' \in {"feed_ok", "feed_fail"} /\ UNCHANGED <<pixels, colorCounts>>)
          /\ (initPc = "feed_ok" /\ initPc' # initPc)
               => /\ initPc' = "done"
                  /\ recentPlacements' =
                        (IF redisRecent # <<>> THEN redisRecent ELSE recentPlacements)
                  /\ UNCHANGED <<pixels, colorCounts>>
          /\ (initPc = "feed_fail" /\ initPc' # initPc)
               => /\ initPc' = "done"
                  /\ UNCHANGED <<pixels, colorCounts, recentPlacements>>]_vars

\* the grid load failed and the feed was loaded all the same: the cache holds
\* a grid with painted cells, the canvas is blank, and the history is the feed
C22_Witness ==
    /\ initialized
    /\ placed = 0
    /\ Decompress(redisCanvas) = SeedEqual
    /\ pixels = createEmptyCanvas
    /\ recentPlacements = SeedFeed

\* ---- the flush on shutdown ---------------------------------------------------
\* C23: flushPendingRedisSave cancels the debounce timer and, when a save is
\* pending, writes the grid once; when it returns after a successful write no
\* timer is armed, the pending flag is false and the grid written last is the
\* grid as it is, placements applied while the write was in flight included
C23_FlushComplete ==
    [][/\ (flushPc = "idle" /\ flushPc' # "idle")
           => /\ ~redisSaveTimer'
              /\ timeouts' = 0
              /\ ~(redisSavePending /\ useRedis)
                    => (flushPc' = "flushed" /\ redisCanvas' = redisCanvas)
              /\ flushPc' = "save_ok" => redisCanvas' = Compress(Flatten(pixels))
       /\ (flushPc = "save_ok" /\ flushPc' = "flushed")
           => /\ ~redisSaveTimer'
              /\ timeouts' = 0
              /\ ~redisSavePending'
              /\ Decompress(redisCanvas') = Flatten(pixels')]_vars

\* ---- the reset cycle (the revision of the archive service that clears the
\* ---- canvas at midnight, services/archive.ts, with the Canvas of that
\* ---- revision, which keeps no counters) -----------------------------------
\* Canvas.setPixelSync of that revision: the cell and the history
setPixelSyncCycle(x, y, color, botId) ==
    /\ LoopFree
    /\ Listening
    /\ InBounds(x, y)
    /\ placed < MaxPlacements
    /\ pixels' = [pixels EXCEPT ![y][x] = [color |-> color, botId |-> botId, placedAt |-> now]]
    /\ recentPlacements' =
          LET pushed == Append(recentPlacements,
                               [x |-> x, y |-> y, color |-> color, botId |-> botId,
                                timestamp |-> now])
          IN IF Len(pushed) > HISTORY_CAPACITY THEN Tail(pushed) ELSE pushed
    /\ placed' = placed + 1
    /\ shadow' = [shadow EXCEPT ![y][x] = color]
    /\ ret' = "none"
    /\ resetNote' = NoReset
    /\ UNCHANGED <<initialized, cachedColors, stateDirty, colorCounts, redisSaveTimer,
                   redisSavePending, runtimeVars, useRedis, cacheMode, redisVars,
                   serviceVars, taskVars, emitted, lastGet, escaped, timerWrites, effects,
                   archiveConfig, archiveFields, storeVars, archiveTaskVars,
                   archiveHistory, lastSets, ownershipVars, registryVars, tailVars, lastVars>>

\* GET /stats of that revision: the colors counted by a scan of getState
colorDistribution == CountCells(pixels, 0, EmptyRecord)

\* what the reset cycle leaves alone
resetFrame == <<initialized, cachedColors, stateDirty, colorCounts, redisSaveTimer,
                redisSavePending, runtimeVars, useRedis, cacheMode, redisVars, serviceVars,
                taskVars, emitted, lastGet, escaped, placed, timerWrites, effects,
                archiveConfig, dbArchives, loadPc, loadResp, getPc, getReq,
                archiveHistory, lastSets, ownershipVars, registryVars, tailVars, lastVars>>

\* a faulty reset: the history is kept
ClearedKeepsHistory(sn, index) ==
    /\ archives' = index
    /\ pixels' = createEmptyCanvas
    /\ recentPlacements' = recentPlacements
    /\ shadow' = [y \in Rows |-> [x \in Cols |-> "white"]]
    /\ nextSnapshotTime' = now + CYCLE_MS
    /\ snapshotTimer' = scheduleSnapshot(now + CYCLE_MS, now)
    /\ snapPc' = "idle"
    /\ snap' = NoSnap
    /\ resetNote' = [cleared |-> TRUE, before |-> Flatten(pixels), archived |-> sn.state,
                     id |-> sn.id]

\* performReset, lines 101-113, after saveCanvas has returned with this index:
\* canvas.reset() (Canvas.reset: a new empty grid and an empty history; no
\* cache is configured, so nothing is awaited), the next reset time, the
\* next timer.  The onReset callback broadcasts and changes no state.
Cleared(sn, index) ==
    /\ archives' = index
    /\ pixels' = createEmptyCanvas
    /\ recentPlacements' = <<>>
    /\ shadow' = [y \in Rows |-> [x \in Cols |-> "white"]]
    /\ nextSnapshotTime' = now + CYCLE_MS
    /\ snapshotTimer' = scheduleSnapshot(now + CYCLE_MS, now)
    /\ snapPc' = "idle"
    /\ snap' = NoSnap
    /\ resetNote' = [cleared |-> TRUE, before |-> Flatten(pixels), archived |-> sn.state,
                     id |-> sn.id]

\* saveCanvas threw: performReset is rejected before canvas.reset(), which
\* nothing awaits; no reset, no next timer
ResetThrown(index) ==
    /\ archives' = index
    /\ snapshotTimer' = NoTime
    /\ snapPc' = "idle"
    /\ snap' = NoSnap
    /\ resetNote' = NoReset
    /\ UNCHANGED <<pixels, recentPlacements, shadow, nextSnapshotTime>>

\* saveCanvas, lines 132-142: the local file, the index, the index file
ResetSaveLocal(sn, o) ==
    /\ UNCHANGED <<s3Objects, s3Index>>
    /\ IF o = "file_fail"
       THEN /\ UNCHANGED <<localFiles, localIndex>>
            /\ ResetThrown(archives)
       ELSE /\ localFiles' = Put(localFiles, sn.id, JsonStringify(sn.state))
            /\ IF o = "ok" /\ ~useS3
               THEN localIndex' = Unshift(archives, sn)
               ELSE UNCHANGED localIndex
            /\ IF o = "ok" \/ useS3
               THEN Cleared(sn, Unshift(archives, sn))
               ELSE ResetThrown(Unshift(archives, sn))

\* the timer of scheduleReset fires: performReset calls saveCanvas, which
\* reads the clock and the canvas (lines 119-121) and, with the object store
\* configured, puts the object and awaits (line 124, storage.ts lines 43-56)
ResetFire ==
    /\ LoopFree
    /\ snapPc = "idle"
    /\ snapshotTimer # NoTime
    /\ now >= snapshotTimer
    /\ LET sn == [NoSnap EXCEPT !.id = ArchiveId(now), !.timestamp = now,
                                !.state = StateOf(Flatten(pixels)),
                                !.before = archives]
       IN IF useS3
          THEN \E o \in StoreOutcomes :
                 /\ s3Objects' = (IF o = "ok"
                                  THEN Put(s3Objects, S3Key(sn.id),
                                           [body |-> JsonStringify(sn.state),
                                            lastModified |-> now])
                                  ELSE s3Objects)
                 /\ snapPc' = (IF o = "ok" THEN "reset_s3_ok" ELSE "reset_s3_fail")
                 /\ snap' = sn
                 /\ snapshotTimer' = NoTime
                 /\ resetNote' = NoReset
                 /\ UNCHANGED <<pixels, recentPlacements, shadow, archives,
                                nextSnapshotTime, s3Index, localFiles, localIndex>>
          ELSE \E ol \in LocalOutcomes : ResetSaveLocal(sn, ol)
    /\ ret' = "none"
    /\ UNCHANGED resetFrame

\* saveArchiveToS3 has answered (lines 125-130; the index object is updated
\* by storage.ts updateArchiveIndex, whose failure saveArchiveToS3 reports as
\* its own): the entry is recorded, or the local files are written
ResetS3Done ==
    /\ LoopFree
    /\ snapPc \in {"reset_s3_ok", "reset_s3_fail"}
    /\ IF snapPc = "reset_s3_ok"
       THEN /\ s3Index' = Unshift(s3Index, snap)
            /\ Cleared(snap, Unshift(archives, snap))
            /\ UNCHANGED <<s3Objects, localFiles, localIndex>>
       ELSE \E ol \in LocalOutcomes : ResetSaveLocal(snap, ol)
    /\ ret' = "none"
    /\ UNCHANGED resetFrame

\* the service of that revision, with or without the object store; the
\* stores are empty
InitReset ==
    \E s3 \in BOOLEAN :
        /\ StartState(FALSE, "up", <<>>, <<>>)
        /\ ArchiveStart(FALSE, s3, <<>>, NoObjects, <<>>, NoObjects, <<>>)

NextReset ==
    \/ CanvasInitStart /\ UNCHANGED archiveVars
    \/ LoadStart
    \/ LoadS3IndexDone
    \/ LoadS3ListDone
    \/ \E at \in ArchiveCells \cup {<<0, 1>>}, b \in PlaceBots :
         Serving /\ setPixelSyncCycle(at[1], at[2], "red", b)
    \/ ResetFire
    \/ ResetS3Done
    \/ ArchiveTick

SpecReset == InitReset /\ [][NextReset]_vars

\* C24: after reset every cell is white with no owner and no time, the
\* history is empty and the counters are {white: width * height}
C24_ResetRestoresInitialState ==
    resetNote.cleared =>
        /\ \A y \in Rows, x \in Cols :
              pixels[y][x] = [color |-> "white", botId |-> NULL, placedAt |-> NoTime]
        /\ DOMAIN pixels = Rows
        /\ \A y \in Rows : DOMAIN pixels[y] = Cols
        /\ recentPlacements = <<>>
        /\ colorDistribution = [c \in {"white"} |-> CANVAS_WIDTH * CANVAS_HEIGHT]

\* a canvas with a painted cell has been reset
C24_Witness ==
    /\ resetNote.cleared
    /\ \E r \in 1..CANVAS_HEIGHT, c \in 1..CANVAS_WIDTH : resetNote.before[r][c] = "red"
    /\ placed >= 1

\* C25: the grid that canvas.reset() clears is the grid of the archive saved
\* in that cycle: every placement applied before the clearing is archived
C25_ArchivedBeforeCleared ==
    resetNote.cleared => resetNote.archived.colors = resetNote.before

\* ---- bot registration (auth.ts register, POST /bots/register) -------------
\* a name is a string: the sequence of its characters
\* String.prototype.toLowerCase, over the letters of the names sent
LowerChar(ch) == IF ch = "A" THEN "a" ELSE IF ch = "B" THEN "b" ELSE ch
toLowerCase(name) == [i \in 1..Len(name) |-> LowerChar(name[i])]

\* uuidv4(): a value never returned before, written as its first eight
\* characters and the rest
UuidPrefixes == {"0a1b2c3d", "4e5f6a7b"}
Uuids == UuidPrefixes \X (1..MaxRegistrations)

\* lines 22-23: `bot_${uuidv4().slice(0, 8)}` keeps the first eight characters;
\* `artboard_sk_${uuidv4().replace(/-/g, '')}` keeps them all
BotIdOf(uuid) == <<"bot_", uuid[1]>>
ApiKeyOf(uuid) == <<"artboard_sk_", uuid[1], uuid[2]>>

\* Map.prototype.set
MapSet(map, key, value) ==
    [k \in DOMAIN map \cup {key} |-> IF k = key THEN value ELSE map[k]]
\* the values of a Map
MapValues(map) == {map[k] : k \in DOMAIN map}

\* the registry as a whole
Registry == <<bots, botsByName, botsById>>

\* api.ts line 45: the body's name is refused
NameRefused(name) == Len(name) < 1 \/ Len(name) > NAME_MAX

\* the registration is answered; the rest of the program is not involved
registerFrame == <<canvasVars, runtimeVars, useRedis, cacheMode, redisVars, serviceVars,
                   taskVars, emitted, historyVars, archiveConfig, archiveFields, storeVars,
                   archiveTaskVars, archiveHistory, lastSets, ownershipVars, resetNote,
                   tailVars, lastVars>>

\* POST /bots/register (api.ts lines 42-60) with AuthService.register (auth.ts
\* lines 21-61) and no database: nothing is awaited before the three maps
\* are written, so the request is one step
PostRegister(name) ==
    /\ LoopFree
    /\ Listening
    /\ IF NameRefused(name)
       THEN /\ regNote' = [called |-> TRUE, name |-> name, status |-> 400,
                           error |-> "Name required (1-32 chars)", before |-> Registry]
            /\ UNCHANGED <<bots, botsByName, botsById, drawn>>
       ELSE \E forId \in Uuids \ drawn :
            \E forKey \in Uuids \ (drawn \cup {forId}) :
              /\ drawn' = drawn \cup {forId, forKey}
              /\ IF toLowerCase(name) \in DOMAIN botsByName
                 THEN /\ regNote' = [called |-> TRUE, name |-> name, status |-> 409,
                                     error |-> "Bot name already taken",
                                     before |-> Registry]
                      /\ UNCHANGED <<bots, botsByName, botsById>>
                 ELSE LET bot == [id |-> BotIdOf(forId), name |-> name,
                                  description |-> "", apiKey |-> ApiKeyOf(forKey),
                                  createdAt |-> now, pixelsPlaced |-> 0]
                      IN /\ bots' = MapSet(bots, bot.apiKey, bot)
                         /\ botsByName' = MapSet(botsByName, toLowerCase(name), bot)
                         /\ botsById' = MapSet(botsById, bot.id, bot)
                         /\ regNote' = [called |-> TRUE, name |-> name, status |-> 200,
                                        error |-> "", before |-> Registry]
    /\ ret' = "none"
    /\ UNCHANGED registerFrame

\* the names sent: two that differ by case only, another one, none, and one
\* of NAME_MAX + 1 characters
RegisterNames ==
    {<<"A", "d", "a">>, <<"a", "d", "a">>, <<"B", "o">>, <<>>,
     [i \in 1..(NAME_MAX + 1) |-> "x"]}

InitRegister == StartState(FALSE, "up", <<>>, <<>>) /\ ArchiveIdle

NextRegister ==
    \/ CanvasInitStart /\ UNCHANGED archiveVars
    \/ \E name \in RegisterNames : PostRegister(name)

SpecRegister == InitRegister /\ [][NextRegister]_vars

\* the bots of the registry
Registered == MapValues(bots) \cup MapValues(botsByName) \cup MapValues(botsById)

\* the name was taken when the request arrived
WasTaken(note) == \E b \in MapValues(note.before[2]) : b.name = note.name

\* the registry holds no two bots of one name and every API key stands for
\* the bot that carries it
NamesUnique ==
    /\ \A b1, b2 \in Registered : b1.name = b2.name => b1 = b2
    /\ \A key \in DOMAIN bots : bots[key].apiKey = key
    /\ \A b1, b2 \in Registered : b1.apiKey = b2.apiKey => b1 = b2

\* a registration of a taken name is refused and changes nothing
TakenRefused ==
    regNote.called /\ WasTaken(regNote) =>
        /\ regNote.status = 409
        /\ regNote.error = "Bot name already taken"
        /\ Registry = regNote.before

\* C26: a registration of a taken name fails with 'Bot name already taken'
\* and leaves the registry unchanged; no two registered bots share a name,
\* every API key maps to exactly one bot, and the maps by key, by name and by
\* id hold the same set of bots
C26_UniqueNames ==
    /\ TakenRefused
    /\ NamesUnique
    /\ MapValues(bots) = MapValues(botsByName)
    /\ MapValues(botsByName) = MapValues(botsById)

\* ---- the debounced mirror of the grid in the cache, to the end of the
\* ---- process ----------------------------------------------------------------
\* what a serialization of the grid leaves alone
mirrorRest == <<archiveConfig, archiveFields, storeVars, archiveTaskVars, archiveHistory,
                lastSets, ownershipVars, resetNote, registryVars, lookupVars,
                lastVars>>

\* the cache is configured and answers, or fails, every command
InitMirror ==
    \E mode \in {"up", "down"} : StartState(TRUE, mode, <<>>, <<>>) /\ ArchiveIdle

\* the callbacks the event loop runs of itself: the steps of init, the
\* continuations of the awaited cache commands, the debounce timer
Scheduled ==
    \/ CanvasInitStart /\ UNCHANGED archiveVars
    \/ CanvasInitLoaded /\ UNCHANGED archiveVars
    \/ CanvasInitFeed /\ UNCHANGED archiveVars
    \/ \E t \in Callers : SetPixelInfoDone(t) /\ UNCHANGED archiveVars
    \/ \E t \in Callers : SetPixelIncrDone(t) /\ UNCHANGED archiveVars
    \/ \E t \in Callers : SetPixelZaddDone(t) /\ UNCHANGED archiveVars
    \/ \E t \in Callers : SetPixelTrimDone(t) /\ UNCHANGED archiveVars
    \/ TimerFire /\ mirrored' = placed /\ UNCHANGED mirrorRest
    \/ FlushSaved /\ UNCHANGED archiveVars

NextMirror ==
    \/ Scheduled
    \/ \E t \in Callers, at \in CallCoords, c \in PlaceColors, b \in PlaceBots :
         DirectSetPixel(t, at[1], at[2], c, b) /\ UNCHANGED archiveVars
    \/ /\ FlushStart
       /\ mirrored' = (IF redisSavePending /\ useRedis THEN placed ELSE mirrored)
       /\ UNCHANGED mirrorRest

\* Node runs every timer that is due and every continuation whose command
\* has been answered
SpecMirror == InitMirror /\ [][NextMirror]_vars /\ WF_vars(Scheduled)

\* C27: every applied placement is eventually followed by a full-grid write
\* attempt made with a grid serialized after it; the timer serializes the grid
\* as it is when it fires; a placement applied with no timer armed arms one
C27_EventualMirroring ==
    /\ \A k \in 1..MaxPlacements : (placed >= k) ~> (mirrored >= k)
    /\ [][/\ (timerWrites' # timerWrites /\ redisCanvas' # redisCanvas)
               => redisCanvas' = Compress(Flatten(pixels))
          /\ (placed' # placed /\ ~redisSaveTimer)
               => (redisSaveTimer' /\ redisSavePending' /\ timeouts' = timeouts + 1)]_vars

\* ---- GET /pixel/:x/:y (api.ts lines 84-118) --------------------------------
\* redis.ts getPixelInfo, lines 87-102: the hash of the cell, null without a
\* botId field
getPixelInfo(x, y) ==
    IF redisPixelInfo[y][x].botId = NULL THEN NoInfo ELSE redisPixelInfo[y][x]

\* AuthService.getBot without a database (auth.ts line 97), for the two
\* registered bots, and `bot?.name || 'Unknown'` (api.ts line 106)
BotNameOrUnknown(botId) == IF botId \in BotIds THEN BotName(botId) ELSE "Unknown"

\* Canvas.getPixelInfoAsync, lines 202-220: the answer of the cache when it
\* has one, otherwise the owner in memory with an empty name, otherwise null
getPixelInfoAsync(r) ==
    IF ~r.failed /\ r.info # NoInfo
    THEN [botId |-> r.info.botId, botName |-> r.info.botName]
    ELSE IF getPixel(r.x, r.y).botId # NULL
         THEN [botId |-> getPixel(r.x, r.y).botId, botName |-> ""]
         ELSE [botId |-> NULL, botName |-> NULL]

\* api.ts lines 94-117: the response built from the cell read at the start
\* of the request and from the pixel info
PixelResponse(r, pixelInfo) ==
    LET named == pixelInfo.botName # NULL /\ pixelInfo.botName # ""
        botId == IF named /\ r.pixel.botId = NULL THEN pixelInfo.botId ELSE r.pixel.botId
        botName == IF named THEN pixelInfo.botName
                   ELSE IF botId # NULL THEN BotNameOrUnknown(botId) ELSE NULL
    IN [status |-> 200, x |-> r.x, y |-> r.y, color |-> r.pixel.color, botId |-> botId,
        botName |-> botName, placedAt |-> r.pixel.placedAt]

\* what the lookup leaves alone
lookupFrame == <<canvasVars, runtimeVars, useRedis, cacheMode, redisVars, serviceVars,
                 taskVars, emitted, historyVars, archiveConfig, archiveFields, storeVars,
                 archiveTaskVars, archiveHistory, lastSets, ownershipVars, resetNote,
                 registryVars, mirrored, lastVars>>

\* the request arrives (lines 85-100): the cell is read; a painted cell has
\* its info asked of the cache, which getPixelInfoAsync awaits
GetPixelStart(x, y) ==
    /\ LoopFree
    /\ Listening
    /\ pixelReq.pc = "idle"
    /\ IF getPixel(x, y).color = NULL
       THEN /\ pixelAnswer' = [NoPixelAnswer EXCEPT !.status = 400, !.x = x, !.y = y]
            /\ UNCHANGED pixelReq
       ELSE IF getPixel(x, y).color = "white"
       THEN /\ pixelAnswer' = [status |-> 200, x |-> x, y |-> y, color |-> "white",
                               botId |-> getPixel(x, y).botId, botName |-> NULL,
                               placedAt |-> getPixel(x, y).placedAt]
            /\ UNCHANGED pixelReq
       ELSE /\ \E o \in Outcomes(cacheMode) :
                 pixelReq' = [pc |-> "info", x |-> x, y |-> y, pixel |-> getPixel(x, y),
                              info |-> IF o = "ok" THEN getPixelInfo(x, y) ELSE NoInfo,
                              failed |-> o = "fail"]
            /\ UNCHANGED pixelAnswer
    /\ ret' = "none"
    /\ UNCHANGED lookupFrame

\* the cache has answered (lines 100-117): getPixelInfoAsync returns and the
\* response is sent; getBot awaits nothing without a database
GetPixelInfoDone ==
    /\ LoopFree
    /\ pixelReq.pc = "info"
    /\ pixelAnswer' = PixelResponse(pixelReq, getPixelInfoAsync(pixelReq))
    /\ pixelReq' = NoLookup
    /\ ret' = "none"
    /\ UNCHANGED lookupFrame

\* the cache answers some commands and fails others; two bots paint one cell
InitAttribution == StartState(TRUE, "flaky", <<>>, <<>>) /\ ArchiveIdle

NextAttribution ==
    \/ CanvasInitStart /\ UNCHANGED archiveVars
    \/ CanvasInitLoaded /\ UNCHANGED archiveVars
    \/ CanvasInitFeed /\ UNCHANGED archiveVars
    \/ \E t \in Callers, b \in BotIds :
         DirectSetPixel(t, 0, 0, "red", b) /\ UNCHANGED archiveVars
    \/ \E t \in Callers : SetPixelInfoDone(t) /\ UNCHANGED archiveVars
    \/ \E t \in Callers : SetPixelIncrDone(t) /\ UNCHANGED archiveVars
    \/ \E t \in Callers : SetPixelZaddDone(t) /\ UNCHANGED archiveVars
    \/ \E t \in Callers : SetPixelTrimDone(t) /\ UNCHANGED archiveVars
    \/ \E at \in {<<0, 0>>, <<1, 0>>, <<CANVAS_WIDTH, 0>>} : GetPixelStart(at[1], at[2])
    \/ GetPixelInfoDone

SpecAttribution == InitAttribution /\ [][NextAttribution]_vars

\* C28: the botId and botName of a response of GET /pixel are those of the
\* bot whose placement produced the color of the cell
C28_AttributionConsistent ==
    (pixelAnswer.status = 200 /\ pixelAnswer.color # "white") =>
        \E b \in BotIds : /\ pixelAnswer.botId = b
                          /\ pixelAnswer.botName = BotName(b)
                          /\ \E i \in DOMAIN recentPlacements :
                               /\ recentPlacements[i].botId = b
                               /\ recentPlacements[i].x = pixelAnswer.x
                               /\ recentPlacements[i].y = pixelAnswer.y
                               /\ recentPlacements[i].timestamp = pixelAnswer.placedAt

\* ---- the order of the in-memory archive index -----------------------------
\* C29: in every reachable state the entries of the index have timestamps
\* that do not increase from front to back, and no id appears twice
C29_IndexNewestFirst ==
    /\ \A i, j \in DOMAIN archives : i < j => archives[i].timestamp >= archives[j].timestamp
    /\ \A i, j \in DOMAIN archives : archives[i].id = archives[j].id => i = j

\* ---- seeding the grid from the cache ----------------------------------------
\* C30: the step of init that has loaded a grid leaves in cell (x, y) the
\* loaded color when y is below the loaded row count and the height and x is
\* below that row's length and the width, and the background otherwise; the
\* grid keeps its width and height and the dirty flag is set
C30_SeedOverlap ==
    [][(initPc = "canvas_ok" /\ initPc' # initPc /\ Decompress(redisCanvas) # <<>>)
         => LET grid == Decompress(redisCanvas)
            IN /\ \A y \in 0..(CANVAS_HEIGHT - 1), x \in 0..(CANVAS_WIDTH - 1) :
                    pixels'[y][x].color =
                        IF /\ y < Len(grid) /\ y < CANVAS_HEIGHT
                           /\ x < Len(grid[y + 1]) /\ x < CANVAS_WIDTH
                        THEN grid[y + 1][x + 1]
                        ELSE "white"
               /\ DOMAIN pixels' = 0..(CANVAS_HEIGHT - 1)
               /\ \A y \in DOMAIN pixels' : DOMAIN pixels'[y] = 0..(CANVAS_WIDTH - 1)
               /\ stateDirty']_vars

\* a grid with a short first row and a long second row has been loaded: the
\* cell beside the short row is background, the second row is cut at the width
C30_Witness ==
    /\ initPc \in {"feed_ok", "feed_fail", "done"}
    /\ Decompress(redisCanvas) = SeedRagged
    /\ placed = 0
    /\ pixels[0][0].color = "red"
    /\ pixels[0][1].color = "white"
    /\ pixels[1][1].color = "blue"

\* ---- the encoding of the grid in the cache (redis.ts lines 43-64) ----------
\* the grids handed over: rectangular, of one to MaxGridSide rows and
\* columns, of three palette names
CodecColors == {"white", "red", "blue"}
CodecGrids ==
    UNION {[1..h -> [1..w -> CodecColors]] : h \in 1..MaxGridSide, w \in 1..MaxGridSide}

\* what the codec leaves alone
codecFrame == <<canvasVars, runtimeVars, useRedis, cacheMode, redisPixelInfo, redisBotStats,
                redisRecent, redisCooldown, serviceVars, taskVars, emitted, historyVars,
                archiveConfig, archiveFields, storeVars, archiveTaskVars, archiveHistory,
                lastSets, ownershipVars, resetNote, registryVars, tailVars, limitRead,
                chatVars>>

\* a caller hands a grid to saveCanvasToRedis
CodecPick ==
    /\ codec = NoCodec
    /\ \E grid \in CodecGrids : codec' = [NoCodec EXCEPT !.grid = grid]
    /\ UNCHANGED <<redisCanvas, ret, codecFrame>>

\* saveCanvasToRedis, lines 43-51: the joined string is set under the key
SaveCanvasToRedis ==
    /\ codec.grid # <<>>
    /\ ~codec.saved
    /\ redisCanvas' = Compress(codec.grid)
    /\ codec' = [codec EXCEPT !.saved = TRUE]
    /\ UNCHANGED <<ret, codecFrame>>

\* loadCanvasFromRedis, lines 53-64: the value under the key, split
LoadCanvasFromRedis ==
    /\ codec.saved
    /\ ~codec.returned
    /\ codec' = [codec EXCEPT !.returned = TRUE, !.value = Decompress(redisCanvas)]
    /\ UNCHANGED <<redisCanvas, ret, codecFrame>>

InitCodec == StartState(TRUE, "up", <<>>, <<>>) /\ ArchiveIdle

NextCodec == CodecPick \/ SaveCanvasToRedis \/ LoadCanvasFromRedis

SpecCodec == InitCodec /\ [][NextCodec]_vars

\* C31: the grid loaded from the value saved for a grid has the rows of that
\* grid, each of its length, and its color at every position
C31_CodecRoundTrip ==
    codec.returned =>
        /\ Len(codec.value) = Len(codec.grid)
        /\ \A r \in 1..Len(codec.grid) :
              /\ Len(codec.value[r]) = Len(codec.grid[r])
              /\ \A c \in 1..Len(codec.grid[r]) : codec.value[r][c] = codec.grid[r][c]

\* a grid of two rows and two columns of different colors has come back
C31_Witness ==
    /\ codec.returned
    /\ Len(codec.grid) = 2
    /\ Len(codec.grid[1]) = 2
    /\ codec.grid[1][1] # codec.grid[1][2]
    /\ codec.grid[1][1] # codec.grid[2][1]
    /\ redisCanvas = <<codec.grid[1][1], ",", codec.grid[1][2], "|",
                       codec.grid[2][1], ",", codec.grid[2][2]>>

\* ---- RateLimitService without a cache (auth.ts lines 189-225) --------------
\* a faulty canPlace: the cooldown ends one millisecond late
canPlaceLate(botId) ==
    LET last == lastPlacement[botId]
        elapsed == now - last
    IN IF last = NoTime THEN [allowed |-> TRUE, remainingMs |-> 0]
       ELSE IF elapsed > COOLDOWN_MS THEN [allowed |-> TRUE, remainingMs |-> 0]
       ELSE [allowed |-> FALSE, remainingMs |-> COOLDOWN_MS - elapsed]

\* canPlace, lines 203-215 (an absent key of the Map is NoTime)
canPlace(botId) ==
    LET last == lastPlacement[botId]
        elapsed == now - last
    IN IF last = NoTime THEN [allowed |-> TRUE, remainingMs |-> 0]
       ELSE IF elapsed >= COOLDOWN_MS THEN [allowed |-> TRUE, remainingMs |-> 0]
       ELSE [allowed |-> FALSE, remainingMs |-> COOLDOWN_MS - elapsed]

\* what the rate limiter leaves alone
limiterFrame == <<canvasVars, timeouts, cur, initPc, flushPc, useRedis, cacheMode, redisVars,
                  pixelsPlaced, taskVars, emitted, historyVars, archiveConfig, archiveFields,
                  storeVars, archiveTaskVars, archiveHistory, lastSets, ownershipVars,
                  resetNote, registryVars, tailVars, codec, chatVars>>

\* a call of canPlace (getCooldown is the same call, lines 227-230)
CanPlace(botId) ==
    /\ LoopFree
    /\ limitRead' = [called |-> TRUE, botId |-> botId, at |-> now,
                     last |-> lastPlacement[botId],
                     allowed |-> canPlace(botId).allowed,
                     remainingMs |-> canPlace(botId).remainingMs]
    /\ ret' = "none"
    /\ UNCHANGED <<now, lastPlacement, limiterFrame>>

\* recordPlacement, lines 218-225
RecordPlacement(botId) ==
    /\ LoopFree
    /\ lastPlacement' = [lastPlacement EXCEPT ![botId] = now]
    /\ ret' = "none"
    /\ UNCHANGED <<now, limitRead, limiterFrame>>

\* time passes
LimiterTick ==
    /\ LoopFree
    /\ now < MaxNow
    /\ now' = now + 1
    /\ ret' = "none"
    /\ UNCHANGED <<lastPlacement, limitRead, limiterFrame>>

InitLimiter == StartState(FALSE, "up", <<>>, <<>>) /\ ArchiveIdle

NextLimiter ==
    \/ \E b \in BotIds : CanPlace(b)
    \/ \E b \in BotIds : RecordPlacement(b)
    \/ LimiterTick

SpecLimiter == InitLimiter /\ [][NextLimiter]_vars

\* C32: canPlace allows with remainingMs 0 a bot with no recorded placement
\* or whose last one is at least COOLDOWN_MS old, and otherwise refuses with
\* remainingMs = COOLDOWN_MS - elapsed; it changes no state; recordPlacement
\* of one bot leaves the record of every other bot as it was
C32_RateLimiter ==
    /\ [](limitRead.called =>
            IF limitRead.last = NoTime \/ limitRead.at - limitRead.last >= COOLDOWN_MS
            THEN limitRead.allowed /\ limitRead.remainingMs = 0
            ELSE /\ ~limitRead.allowed
                 /\ limitRead.remainingMs = COOLDOWN_MS - (limitRead.at - limitRead.last))
    /\ [][/\ limitRead' # limitRead => UNCHANGED <<lastPlacement, now, pixelsPlaced>>
          /\ lastPlacement' # lastPlacement =>
                \E b \in BotIds :
                    /\ lastPlacement'[b] = now
                    /\ \A other \in BotIds \ {b} :
                          lastPlacement'[other] = lastPlacement[other]]_vars

\* a bot is allowed exactly COOLDOWN_MS after its placement was recorded,
\* while the other bot has no record
C32_Witness ==
    /\ limitRead.called
    /\ limitRead.last # NoTime
    /\ limitRead.at - limitRead.last = COOLDOWN_MS
    /\ limitRead.allowed
    /\ \E other \in BotIds \ {limitRead.botId} : lastPlacement[other] = NoTime

\* ---- the chat (api.ts lines 10-37 and 267-331) -----------------------------
\* Date.now() in the chat: the clock of the model, counted from a time more
\* than CHAT_COOLDOWN_MS after the epoch
ChatNow == now + CHAT_COOLDOWN_MS

\* the last n elements of a sequence (ZRANGE key -n -1, and slice(-n), n > 0)
LastOf(seq, n) == SubSeq(seq, IF Len(seq) > n THEN Len(seq) - n + 1 ELSE 1, Len(seq))

\* a faulty addChatMessage: nothing is shifted out
addChatMessageNoShift(buffer, msg) == Append(buffer, msg)

\* addChatMessage, lines 20-25
addChatMessage(buffer, msg) ==
    LET pushed == Append(buffer, msg)
    IN IF Len(pushed) > MAX_CHAT_MESSAGES THEN Tail(pushed) ELSE pushed

\* line 31: `{ ...m, pixelsPlaced: m.pixelsPlaced ?? 0 }`
WithPixelsPlaced(m) ==
    [k \in DOMAIN m \cup {"pixelsPlaced"} |->
        IF k = "pixelsPlaced" /\ k \notin DOMAIN m THEN 0 ELSE m[k]]

\* redis.ts loadRecentChat, lines 217-225
loadRecentChat(limit) == LastOf(redisChat, limit)

\* redis.ts saveChatMessage, line 209: ZADD chat:messages <timestamp> <json>
ChatZAdd(set, msg) ==
    IF \E i \in 1..Len(set) : set[i] = msg THEN set
    ELSE LET k == Cardinality({i \in 1..Len(set) : set[i].timestamp <= msg.timestamp})
         IN SubSeq(set, 1, k) \o <<msg>> \o SubSeq(set, k + 1, Len(set))

\* saveChatMessage, lines 211-214: ZCARD, then ZREMRANGEBYRANK 0 (count - max - 1)
ChatTrim(set) ==
    IF Len(set) > CHAT_MAX_MESSAGES THEN LastOf(set, CHAT_MAX_MESSAGES) ELSE set

RECURSIVE TrimStart(_)
TrimStart(text) ==
    IF Len(text) > 0 /\ text[1] = " " THEN TrimStart(Tail(text)) ELSE text
RECURSIVE TrimEnd(_)
TrimEnd(text) ==
    IF Len(text) > 0 /\ text[Len(text)] = " "
    THEN TrimEnd(SubSeq(text, 1, Len(text) - 1)) ELSE text
\* String.prototype.trim, a string being the sequence of its characters
Trim(text) == TrimEnd(TrimStart(text))

\* POST /chat, lines 269-303: the status the request is answered with before
\* anything is written, 200 when it is accepted
ChatStatus(key, text) ==
    IF key = "none" \/ KeyOwner(key) = NULL THEN 401
    ELSE IF Len(text) = 0 \/ Len(Trim(text)) = 0 \/ Len(text) > MESSAGE_MAX THEN 400
    ELSE IF ChatNow - chatCooldowns[KeyOwner(key)] < CHAT_COOLDOWN_MS THEN 429
    ELSE 200

\* what the chat leaves alone
chatFrame == <<canvasVars, runtimeVars, useRedis, cacheMode, redisVars, serviceVars,
               taskVars, emitted, historyVars, archiveConfig, archiveFields, storeVars,
               archiveTaskVars, archiveHistory, lastSets, ownershipVars, resetNote,
               registryVars, tailVars, codec, limitRead>>

\* messages an earlier process left in the cache: one saved without
\* pixelsPlaced, then two more
ChatSeeds ==
    LET old == [botId |-> "bot_1", botName |-> "alice", message |-> <<"g", "m">>,
                timestamp |-> 1]
        m2 == [botId |-> "bot_2", botName |-> "bob", message |-> <<"h", "i">>,
               timestamp |-> 1, pixelsPlaced |-> 1]
        m3 == [botId |-> "bot_1", botName |-> "alice", message |-> <<"y", "o">>,
               timestamp |-> 2, pixelsPlaced |-> 2]
    IN {<<old>>, <<old, m2, m3>>}

\* the cache as this process finds it
ChatPrior ==
    /\ chatInit.pc = "start"
    /\ redisChat = <<>>
    /\ \E seed \in ChatSeeds : redisChat' = seed
    /\ UNCHANGED <<chatMessages, chatCooldowns, chatInit, chatReq, chatSeeded, chatLog,
                   chatAnswer, ret, chatFrame>>

\* initChat, lines 27-29: the last messages are asked of the cache
ChatInitStart ==
    /\ LoopFree
    /\ chatInit.pc = "start"
    /\ \E o \in Outcomes(cacheMode) :
         chatInit' = [pc |-> IF o = "ok" THEN "loaded" ELSE "failed",
                      resp |-> IF o = "ok" THEN loadRecentChat(CHAT_SEED_LIMIT) ELSE <<>>]
    /\ UNCHANGED <<chatMessages, chatCooldowns, redisChat, chatReq, chatSeeded, chatLog,
                   chatAnswer, ret, chatFrame>>

\* initChat, lines 30-36: the messages are pushed, or the failure is dropped
ChatInitDone ==
    /\ LoopFree
    /\ chatInit.pc \in {"loaded", "failed"}
    /\ LET messages == [i \in 1..Len(chatInit.resp) |-> WithPixelsPlaced(chatInit.resp[i])]
       IN /\ chatMessages' = chatMessages \o messages
          /\ chatSeeded' = chatSeeded \o messages
    /\ chatInit' = [pc |-> "done", resp |-> <<>>]
    /\ UNCHANGED <<chatCooldowns, redisChat, chatReq, chatLog, chatAnswer, ret, chatFrame>>

\* POST /chat, lines 268-319 (the server listens when init() has resolved,
\* index.ts lines 150-152): the checks, the message added to the buffer, the
\* cooldown set, and the message sent to the cache
PostChat(key, text) ==
    /\ LoopFree
    /\ chatInit.pc = "done"
    /\ chatReq.pc = "idle"
    /\ LET status == ChatStatus(key, text)
           bot == KeyOwner(key)
           msg == [botId |-> bot, botName |-> BotName(bot), message |-> Trim(text),
                   timestamp |-> ChatNow, pixelsPlaced |-> pixelsPlaced[bot]]
       IN IF status # 200
          THEN /\ chatAnswer' = [status |-> status, botId |-> bot, at |-> ChatNow,
                                 before |-> chatMessages, message |-> text]
               /\ UNCHANGED <<chatMessages, chatCooldowns, redisChat, chatReq, chatLog>>
          ELSE /\ Len(chatLog) < MaxChats
               /\ chatMessages' = addChatMessage(chatMessages, msg)
               /\ chatCooldowns' = [chatCooldowns EXCEPT ![bot] = msg.timestamp]
               /\ chatLog' = Append(chatLog, msg)
               /\ \E o \in Outcomes(cacheMode) :
                    /\ redisChat' = (IF o = "ok" THEN ChatZAdd(redisChat, msg) ELSE redisChat)
                    /\ chatReq' = [pc |-> "saving", msg |-> msg, saved |-> o = "ok"]
               /\ UNCHANGED chatAnswer
    /\ UNCHANGED <<chatInit, chatSeeded, ret, chatFrame>>

\* POST /chat, lines 318-330: saveChatMessage has trimmed the set or failed;
\* the message is broadcast and the request answered
PostChatSaved ==
    /\ LoopFree
    /\ chatReq.pc = "saving"
    /\ redisChat' = (IF chatReq.saved THEN ChatTrim(redisChat) ELSE redisChat)
    /\ chatAnswer' = [status |-> 200, botId |-> chatReq.msg.botId,
                      at |-> chatReq.msg.timestamp, before |-> chatMessages,
                      message |-> chatReq.msg.message]
    /\ chatReq' = NoChatReq
    /\ UNCHANGED <<chatMessages, chatCooldowns, chatInit, chatSeeded, chatLog, ret, chatFrame>>

\* the bodies sent: no text, blanks, two texts, one of MESSAGE_MAX + 1 characters
ChatTexts ==
    {<<>>, <<" ">>, <<"o", "k">>, <<" ", "o", "h", " ">>,
     [i \in 1..(MESSAGE_MAX + 1) |-> "x"]}

InitChat ==
    \E mode \in {"up", "down"} : StartState(TRUE, mode, <<>>, <<>>) /\ ArchiveIdle

NextChat ==
    \/ ChatPrior
    \/ ChatInitStart
    \/ ChatInitDone
    \/ \E key \in {"key_1", "key_2", "bad", "none"}, text \in ChatTexts : PostChat(key, text)
    \/ PostChatSaved
    \/ Tick /\ UNCHANGED archiveVars

SpecChat == InitChat /\ [][NextChat]_vars

\* this bot had a message accepted less than CHAT_COOLDOWN_MS ago
ChattedLately(botId) ==
    \E i \in DOMAIN chatLog :
        /\ chatLog[i].botId = botId
        /\ ChatNow - chatLog[i].timestamp < CHAT_COOLDOWN_MS

\* C33: the buffer never holds more than MAX_CHAT_MESSAGES messages, also
\* after initChat; it is the end of what was seeded and then accepted, in
\* that order (newest last, the oldest evicted); a request of a bot whose
\* last accepted message is less than CHAT_COOLDOWN_MS old is answered 429
\* and leaves the buffer unchanged
C33_ChatBuffer ==
    /\ [](/\ Len(chatMessages) <= MAX_CHAT_MESSAGES
          /\ chatMessages = LastOf(chatSeeded \o chatLog, MAX_CHAT_MESSAGES)
          /\ \A i, j \in DOMAIN chatMessages :
                i < j => chatMessages[i].timestamp <= chatMessages[j].timestamp)
    /\ [][/\ (chatAnswer' # chatAnswer /\ chatAnswer'.status = 429)
               => /\ ChattedLately(chatAnswer'.botId)
                  /\ UNCHANGED <<chatMessages, chatCooldowns, chatLog>>
          /\ chatLog' # chatLog => ~ChattedLately(chatLog'[Len(chatLog')].botId)
          /\ (chatAnswer' # chatAnswer /\ ChattedLately(chatAnswer'.botId)
                /\ chatAnswer'.status \notin {400, 200})
               => chatAnswer'.status = 429]_vars

\* a full buffer that was seeded has taken one more message and lost its
\* oldest, and a bot has been refused for its cooldown
C33_Witness ==
    /\ Len(chatSeeded) = CHAT_SEED_LIMIT
    /\ Len(chatSeeded) + Len(chatLog) > MAX_CHAT_MESSAGES
    /\ Len(chatMessages) = MAX_CHAT_MESSAGES
    /\ chatMessages[1] # chatSeeded[1]
    /\ chatAnswer.status = 429

\* ---- the archive index only grows -------------------------------------------
\* C34: no step removes an entry of the in-memory archive index, also when a
\* snapshot completes while loadArchives awaits its listing
C34_IndexAppendOnly ==
    [][\A i \in DOMAIN archives : \E j \in DOMAIN archives' : archives'[j] = archives[i]]_vars

\* ---- a snapshot is a copy of one moment -------------------------------------
\* C35: the state saveCanvas takes is the grid of that moment, and what any
\* store holds under the id of a snapshot is that state, whichever store
\* accepted it and whatever was placed while the writes were awaited.  (The
\* array getState returns is never written again, part_004 lines 168-172: a
\* later getState builds a new one, so the value taken stands for the array.)
C35_PointInTime ==
    /\ [](\A store \in {"db", "s3", "local"} : \A id \in DOMAIN Stored[store] :
             /\ id \in DOMAIN created
             /\ JsonParse(Stored[store][id]) = created[id])
    /\ [][created' # created
             => /\ created'[ArchiveId(now)] = StateOf(Flatten(pixels))
                /\ snapPc' # "idle" => snap'.state = StateOf(Flatten(pixels))]_vars

\* the relational store refused a snapshot, a cell was painted while the
\* writes were awaited, and the local file holds the grid without that cell
C35_Witness ==
    /\ firing.ended
    /\ Len(firing.writes) > 1
    /\ firing.writes[1] = [store |-> "db", outcome |-> "fail"]
    /\ firing.id \in DOMAIN Stored["local"]
    /\ JsonParse(Stored["local"][firing.id]) = firing.state
    /\ firing.state.colors # Flatten(pixels)

\* ---- POST /api/pixel runs to its end ------------------------------------------
\* the server without a cache, and with a cache whose commands may fail one
\* by one
InitComplete ==
    \/ StartState(FALSE, "up", <<>>, <<>>) /\ ArchiveIdle
    \/ StartState(TRUE, "flaky", <<>>, <<>>) /\ ArchiveIdle

\* what the event loop runs by itself: the continuations of init and of the
\* handlers, once the command they wait for is answered
HandlerStep ==
    /\ UNCHANGED archiveVars
    /\ \/ CanvasInitStart
       \/ CanvasInitLoaded
       \/ CanvasInitFeed
       \/ \E t \in Tasks : \/ ApiCooldownChecked(t)
                           \/ SetPixelInfoDone(t)
                           \/ SetPixelIncrDone(t)
                           \/ SetPixelZaddDone(t)
                           \/ SetPixelTrimDone(t)
                           \/ ApiRecord(t)
                           \/ ApiRecorded(t)

\* the requests sent: well-formed ones of both bots for one cell
CompleteRequests == {RequestOf(k, TRUE, 0, 0, "red") : k \in {"key_1", "key_2"}}

NextComplete ==
    \/ HandlerStep
    \/ \E t \in Tasks, r \in CompleteRequests : ApiStart(t, r) /\ UNCHANGED archiveVars
    \/ Tick /\ UNCHANGED archiveVars

SpecComplete == InitComplete /\ [][NextComplete]_vars /\ WF_vars(HandlerStep)

\* the request of task t has run to its end: cooldown recorded, counter
\* incremented, placement broadcast, answered with success
Completed(t) ==
    /\ pc[t] = "r200"
    /\ \A e \in {"cooldown", "count", "emit"} : EffectIndex(t, e) > 0

\* C36: a placement that POST /pixel applied to the grid is eventually
\* completed: the cooldown of the bot is recorded, its pixelsPlaced is
\* incremented, the placement is broadcast and the request is answered with
\* success
C36_AppliedCompletes == \A t \in Tasks : Applied(t) ~> Completed(t)

\* ---- the colors of the grid ---------------------------------------------------
\* the server starts over a cache that holds no grid, or a grid an earlier
\* process saved (of this size, or with rows of other lengths)
InitPalette ==
    \E grid \in {<<>>, SeedEqual, SeedRagged} :
        StartState(TRUE, "flaky", Compress(grid), <<>>) /\ ArchiveIdle

\* the requests sent: well-formed ones, and ones whose color is no palette
\* name, is empty, or is missing
PaletteRequests ==
    {RequestOf("key_1", TRUE, 0, 0, col) : col \in ApiColors \cup {"mauve", ""}}

NextPalette ==
    \/ HandlerStep
    \/ \E t \in Tasks, r \in PaletteRequests : ApiStart(t, r) /\ UNCHANGED archiveVars
    \/ Tick /\ UNCHANGED archiveVars

SpecPalette == InitPalette /\ [][NextPalette]_vars

\* C37: in every reachable state the color of every cell is a palette name,
\* and so is every key of colorCounts
C37_PaletteOnly ==
    /\ \A y \in Rows, x \in Cols : pixels[y][x].color \in COLOR_NAMES
    /\ DOMAIN colorCounts \subseteq COLOR_NAMES

\* the grid was seeded from the cache, a request painted a cell, and a
\* request with a color outside the palette was refused
C37_Witness ==
    /\ initPc = "done"
    /\ pixels[1][1].color = "blue"
    /\ pixels[0][0].color = "blue"
    /\ pixels[0][0].botId = "bot_1"
    /\ \E t \in Tasks : Applied(t) /\ req[t].color = "blue"
    /\ \E t \in Tasks : pc[t] = "r400" /\ req[t].color = "mauve"

\* ---- init and the placements ----------------------------------------------------
\* a faulty init: a call made after init completed starts over
CanvasInitCallStartsOver ==
    /\ LoopFree
    /\ initPc = "done"
    /\ initialized' = FALSE
    /\ initPc' = "start"
    /\ ret' = "void"
    /\ UNCHANGED <<pixels, recentPlacements, cachedColors, stateDirty, colorCounts,
                   redisSaveTimer, redisSavePending, timeouts, now, cur, flushPc,
                   useRedis, cacheMode, redisVars, serviceVars, taskVars, emitted,
                   historyVars, archiveVars>>

\* Canvas.init, line 37, called once more after the call of index.ts has
\* returned: `if (this.initialized) return`, else the body from line 39
CanvasInitCall ==
    /\ LoopFree
    /\ initPc = "done"
    /\ IF initialized
       THEN UNCHANGED <<initialized, initPc>>
       ELSE /\ initPc' = "start"
            /\ UNCHANGED initialized
    /\ ret' = "void"
    /\ UNCHANGED <<pixels, recentPlacements, cachedColors, stateDirty, colorCounts,
                   redisSaveTimer, redisSavePending, timeouts, now, cur, flushPc,
                   useRedis, cacheMode, redisVars, serviceVars, taskVars, emitted,
                   historyVars, archiveVars>>

\* the cache holds no grid or the grid an earlier process saved
InitStartup ==
    \E grid \in {<<>>, SeedEqual} :
        StartState(TRUE, "flaky", Compress(grid), <<>>) /\ ArchiveIdle

NextStartup ==
    \/ HandlerStep
    \/ \E t \in Tasks, r \in PaletteRequests : ApiStart(t, r) /\ UNCHANGED archiveVars
    \/ CanvasInitCall

SpecStartup == InitStartup /\ [][NextStartup]_vars

\* a bot has painted this cell in this process
Painted(y, x) == pixels[y][x].botId # NULL

\* C38: a step that changes the grid is either the seeding step of init, taken
\* when nothing has been placed, or a placement made after init has finished;
\* the seeding step is never taken once a placement was made; a call of init
\* after it completed changes nothing
C38_SeedBeforePlacements ==
    /\ [][pixels' # pixels
            => IF initPc = "done"
               THEN initialized /\ initPc' = "done"
               ELSE /\ placed = 0
                    /\ \A y \in Rows, x \in Cols : ~Painted(y, x)]_vars
    /\ [][\A y \in Rows, x \in Cols :
             Painted(y, x) => (initPc = "done" /\ pixels'[y][x].botId # NULL)]_vars
    /\ [][ret' = "void" => UNCHANGED <<canvasVars, redisVars, serviceVars, initPc>>]_vars

\* the grid was seeded, a request painted a seeded cell another color, and
\* init was called again: the cell keeps the color of the request
C38_Witness ==
    /\ ret = "void"
    /\ pixels[1][1].color = "blue"
    /\ pixels[0][0].color = "blue"
    /\ Painted(0, 0)
    /\ Decompress(redisCanvas)[1][1] = "red"

\* ---- one snapshot, one timer ----------------------------------------------------
\* C39: a snapshot in progress and an armed snapshot timer never coexist, so
\* that at most one of either exists; a snapshot starts only from the armed
\* timer, when it is due; a timer is armed only by the step that ends a
\* firing, after its save; placements are applied while a snapshot is in
\* progress (the witness)
C39_OneSnapshotOneTimer ==
    /\ [](~(snapPc # "idle" /\ snapshotTimer # NoTime))
    /\ [][created' # created
            => snapPc = "idle" /\ snapshotTimer # NoTime /\ now >= snapshotTimer]_vars
    /\ [][(snapshotTimer' # snapshotTimer /\ snapshotTimer' # NoTime)
            => /\ firing'.ended
               /\ ~firing'.thrown
               /\ snapPc' = "idle"
               /\ Len(firing'.writes) > 0]_vars

\* a snapshot waits for a store, no timer is armed, and a cell has been
\* painted since the snapshot read the grid
C39_Witness ==
    /\ snapPc # "idle"
    /\ snapshotTimer = NoTime
    /\ snap.state.colors # Flatten(pixels)
    /\ placed > 0

\* ---- setPixel and setPixelSync ------------------------------------------------
\* C40: in every reachable state setPixelSync and setPixel, given the same
\* in-bounds arguments, leave the same cells, the same colorCounts, the same
\* history (appended to, its oldest entry dropped when over capacity) and the
\* dirty flag set; a placement by setPixelSync leaves the debounce timer and
\* the cache alone, and a placement by setPixel arms the debounce and issues
\* its first per-pixel write exactly when the cache is enabled
C40_SyncMatchesAsync ==
    /\ [](\A y \in Rows, x \in Cols, c \in COLOR_NAMES, b \in BotIds :
             /\ setPixelSync(x, y, c, b) = setPixelMemory(x, y, c, b)
             /\ setPixelSync(x, y, c, b).ok
             /\ setPixelSync(x, y, c, b).stateDirty)
    /\ [][placed' = placed + 1
            => IF pc' = pc /\ ret' = "none"
               THEN UNCHANGED <<redisSaveTimer, redisSavePending, timeouts, redisVars>>
               ELSE IF useRedis
               THEN /\ redisSavePending'
                    /\ redisSaveTimer'
                    /\ \E t \in Callers : pc[t] = "idle" /\ pc'[t] = "sp_info"
               ELSE /\ ret' = "true"
                    /\ UNCHANGED <<redisSaveTimer, redisSavePending, timeouts,
                                   redisVars>>]_vars

\* with the cache enabled and the history full, a placement by setPixel waits
\* for its per-pixel write with the debounce armed, after an earlier placement
C40_Witness ==
    /\ useRedis
    /\ Len(recentPlacements) >= HISTORY_CAPACITY
    /\ placed = MaxPlacements
    /\ redisSaveTimer
    /\ redisSavePending
    /\ \E t \in Callers : pc[t] = "sp_info"
    /\ pixels[0][0].botId # NULL

====
